---- MODULE Spec2Model ----
(***************************************************************************)
(* A model of the two archive decoders of qlZipInfo: the StuffIt directory *)
(* decoder (sit.c / sit.h) and the BinHex 4.0 decoder (binhex.c /          *)
(* binhex.h), with the MacRoman transliterator both of them call.          *)
(*                                                                         *)
(* Files are sequences of bytes (0..255).  C integer types keep the        *)
(* widths of the platform the plugin is built for (macOS, LP64, plain      *)
(* char signed): char 8 bits signed, short 16, int 32, long 64.            *)
(* Every C function is an operator that takes the state it reads and       *)
(* returns a record with the state it leaves and its return value; the     *)
(* actions of the specifications apply these operators.                    *)
(***************************************************************************)
EXTENDS Integers, Sequences, FiniteSets, TLC

VARIABLES
    sitData,    \* the bytes of the StuffIt file on disk
    sitFile,    \* sitFileHandle_t, with the position and flags of its FILE
    sitEntry,   \* sitEntryHeader_t filled by the last sitGetNextEntry
    sitLog,     \* history: one record per sitGetNextEntry call
    hqxData,    \* the bytes of the BinHex file on disk
    hqx,        \* hqxFileHandle_t, with the offset of its descriptor
    hqxLog,     \* history: one record per decoder call
    hqxSrc,     \* history: how the BinHex input was produced
    mr,         \* the arguments and buffers of the macosroman2ascii calls
    ql          \* the caller of the decoders: its function, position, locals

vars == <<sitData, sitFile, sitEntry, sitLog, hqxData, hqx, hqxLog, hqxSrc,
          mr, ql>>

(***************************************************************************)
(* Bytes, buffers and C integer arithmetic                                 *)
(***************************************************************************)

Byte == 0..255

\* the element of a set of one element: Only({e : r \in {v}}) is e with r for
\* the value of v, which is computed once, as the value a C function
\* returns into a local variable is
Only(S) == CHOOSE y \in S : TRUE

At(buf, off) == buf[off + 1]

Zeros(n) == [i \in 1..n |-> 0]

Min(a, b) == IF a < b THEN a ELSE b

Max(a, b) == IF a > b THEN a ELSE b

RECURSIVE Pow2(_)
Pow2(n) == IF n = 0 THEN 1 ELSE 2 * Pow2(n - 1)

\* bitwise operations on naturals below 2^w
RECURSIVE BitXor(_, _, _)
BitXor(a, b, w) ==
    IF w = 0 THEN 0
    ELSE IF b = 0 THEN a
    ELSE (((a % 2) + (b % 2)) % 2) + 2 * BitXor(a \div 2, b \div 2, w - 1)

RECURSIVE BitOr(_, _, _)
BitOr(a, b, w) ==
    IF w = 0 THEN 0
    ELSE Max(a % 2, b % 2) + 2 * BitOr(a \div 2, b \div 2, w - 1)

\* the value of a signed char holding the byte b, and back
SChar(b) == IF b >= 128 THEN b - 256 ELSE b

\* the value of a short holding the 16-bit pattern v
SShort(v) == IF v >= 32768 THEN v - 65536 ELSE v

\* Integers wider than 31 bits (unsigned long and long values, file
\* offsets) are pairs <<hi, lo>> that stand for hi * 65536 + lo, with lo in
\* 0..65535 and hi of either sign
WInt(n) == <<n \div 65536, n % 65536>>

WAdd(a, b) ==
    <<a[1] + b[1] + ((a[2] + b[2]) \div 65536), (a[2] + b[2]) % 65536>>

\* (a << 8) | byte
WShl8Or(a, byte) ==
    <<a[1] * 256 + (a[2] \div 256), (a[2] % 256) * 256 + byte>>

WNeg(a) == a[1] < 0

WZero == <<0, 0>>

\* the char at offset off of a char buffer, as the int it promotes to
CharAt(buf, off) == SChar(At(buf, off))

\* the char taken as it is, sign included
MaskByteNone(c) == c

\* c & gMaskByte
MaskByte(c) == c % 256

\* the value an unsigned char takes when c is assigned to it
UChar(c) == c % 256

\* the position of the first zero byte of buf at or after offset off, as a
\* count of the non-zero bytes before it (strlen), bounded by n
RECURSIVE StrNLen(_, _, _)
StrNLen(buf, off, n) ==
    IF n = 0 \/ At(buf, off) = 0 THEN 0
    ELSE 1 + StrNLen(buf, off + 1, n - 1)

\* strncpy(dst, src + off, n) into a zeroed dst of cap bytes: the bytes of
\* src up to its first zero, then zeros, n bytes in all; the result is the
\* memory from dst on, longer than cap when the n bytes written pass the
\* end of dst
Strncpy(cap, src, off, n) ==
    LET k == StrNLen(src, off, n)
    IN  [i \in 1..Max(cap, n) |-> IF i <= k THEN At(src, off + i - 1) ELSE 0]

(***************************************************************************)
(* macosroman2ascii.c                                                      *)
(***************************************************************************)

\* every byte above '~' as the fallback
MacRomanHighNone(c) == 95

\* the switch on bytes above '~'
MacRomanHigh(c) ==
  CASE c \in {128, 129, 203, 204, 229, 231} -> 65
    [] c \in {130} -> 67
    [] c \in {131, 230, 232, 233} -> 69
    [] c \in {132} -> 78
    [] c \in {133, 205, 238, 239, 241} -> 79
    [] c \in {134, 242, 243, 244} -> 85
    [] c \in {135, 136, 137, 138, 139, 140, 187} -> 97
    [] c \in {141} -> 99
    [] c \in {142, 143, 144, 145} -> 101
    [] c \in {146, 147, 148, 149, 245} -> 105
    [] c \in {150} -> 110
    [] c \in {151, 152, 153, 154, 155, 188} -> 111
    [] c \in {156, 157, 158, 159, 181} -> 117
    [] c \in {167} -> 66
    [] c \in {182} -> 100
    [] c \in {197} -> 102
    [] c \in {210, 211, 227, 253} -> 34
    [] c \in {171, 212, 213, 226} -> 39
    [] c \in {202} -> 32
    [] c \in {208, 209, 248} -> 45
    [] c \in {216} -> 121
    [] c \in {217} -> 89
    [] c \in {218} -> 47
    [] c \in {220} -> 60
    [] c \in {221} -> 62
    [] c \in {234, 235, 236, 237} -> 73
    [] c \in {246} -> 94
    [] c \in {247} -> 126
    [] c \in {225, 250} -> 46
    [] OTHER -> 95

\* control bytes passed through
MacRomanCharRaw(c) ==
    IF c > 126 THEN MacRomanHigh(c) ELSE c

\* bytes above '~' with their high bit cleared
MacRomanCharStrip(c) ==
    IF c < 32 THEN 95
    ELSE IF c > 126 THEN c - 128
    ELSE c

\* one byte of the loop: curChar to the byte stored in asciiStr[i]
MacRomanChar(c) ==
    IF c < 32 THEN 95
    ELSE IF c > 126 THEN MacRomanHigh(c)
    ELSE c

\* the null pointer among the buffers: no buffer holds a byte of -1
NULL == <<-1>>

\* macosroman2ascii(in, inLen, out, outLen) on an output buffer whose
\* current content is out: the return value and the buffer it leaves
macosroman2ascii(in, inLen, out, outLen) ==
    IF in = NULL \/ inLen <= 0 \/ out = NULL \/ outLen <= 0
    THEN [ret |-> -1, out |-> out]
    ELSE LET n == Min(inLen, outLen)
             k == StrNLen(in, 0, n)
         IN  [ret |-> 0,
              out |-> [i \in 1..Len(out) |->
                          IF i <= k
                          THEN MacRomanChar(UChar(CharAt(in, i - 1)))
                          ELSE IF i <= outLen THEN 0
                          ELSE out[i]]]

(***************************************************************************)
(* sit.h / sit.c: constants                                                *)
(***************************************************************************)

gSitErr == -1

gSitOkay == 0

gSitEOF == 1

SitEntryFolderStart == 1

SitEntryFolderEnd == 2

SitCompEncrypted == 16

SitCompFolderStart == 32

SitCompFolderEnd == 33

SITFNAMEMAX == 64

SITHDRLEN == 22

SITENTRYHDRLEN == 112

SitHdrOffsetSig1 == 0

SitHdrOffSetNumFiles == 4

SitHdrOffsetArchiveLen == 6

SitHdrOffsetSig2 == 10

SitHdrOffsetVersion == 14

SitEHdrOffsetRsrcCompType == 0

SitEHdrOffsetDataCompType == 1

SitEHdrOffsetNameLen == 2

SitEHdrOffsetName == 3

SitEHdrOffsetType == 66

SitEHdrOffsetCreator == 70

SitEHdrOffsetFinderFlags == 74

SitEHdrOffsetCreationDate == 76

SitEHdrOffsetModDate == 80

SitEHdrOffsetRsrcLen == 84

SitEHdrOffsetDataLen == 88

SitEHdrOffsetRsrcCompLen == 92

SitEHdrOffsetDataCompLen == 96

SitEHdrOffsetRsrcCRC == 100

SitEHdrOffsetDataCRC == 102

SitEHdrOffsetCRC == 110

\* "SIT!", "ST46", "ST50", "ST60", "ST65", "STin", "STi2", "STi3", "STi4"
gSitMagicNumber1s ==
    << <<83, 73, 84, 33>>, <<83, 84, 52, 54>>, <<83, 84, 53, 48>>,
       <<83, 84, 54, 48>>, <<83, 84, 54, 53>>, <<83, 84, 105, 110>>,
       <<83, 84, 105, 50>>, <<83, 84, 105, 51>>, <<83, 84, 105, 52>> >>

\* "rLau"
gSitMagicNumber2 == <<114, 76, 97, 117>>

\* the descriptor open(2) returns
SitFd == 3

(***************************************************************************)
(* sit.c: functions                                                        *)
(***************************************************************************)

\* getULong: four bytes, most significant first, each masked with gMaskByte
getULong(buf, off) ==
    WShl8Or(WShl8Or(WShl8Or(WShl8Or(WZero, MaskByte(CharAt(buf, off))),
                            MaskByte(CharAt(buf, off + 1))),
                    MaskByte(CharAt(buf, off + 2))),
            MaskByte(CharAt(buf, off + 3)))

\* getUShort: two bytes, most significant first, each masked with gMaskByte
getUShort(buf, off) ==
    MaskByte(CharAt(buf, off)) * 256 + MaskByte(CharAt(buf, off + 1))

\* fread(buf, 1, n, fp) on a file of bytes data at position pos: the bytes
\* read (n of them when available, fewer at end of file); pos is wide, the
\* files of the model are shorter than 65536 bytes
FreadBytes(data, pos, n) ==
    LET avail == IF pos[1] # 0 THEN 0 ELSE Max(0, Len(data) - pos[2])
        got == Min(n, avail)
    IN  [i \in 1..got |-> data[pos[2] + i]]

\* a comparison of the first byte alone
MagicAtFirst(buf, off, magic) == At(buf, off) = magic[1]

\* strncmp(buf + off, magic, strlen(magic)) == 0, magic without zero byte
MagicAt(buf, off, magic) ==
    \A i \in 1..Len(magic) : At(buf, off + i - 1) = magic[i]

\* the handle before sitInitFileHandle: uninitialised memory is not read by
\* any function before sitInitFileHandle has written every field
SitHandleNone ==
    [fd |-> -1, fp |-> "NULL", pos |-> WZero, eof |-> FALSE,
     numEntries |-> 0, archiveLen |-> WZero, version |-> 0,
     fdOpen |-> FALSE, closes |-> 0]

\* sitInitFileHandle(fname, sitFile); canOpen: open(2) succeeds
sitInitFileHandle(data, canOpen) ==
    LET cleared == SitHandleNone
        opened == [cleared EXCEPT !.fd = SitFd, !.fp = "open", !.fdOpen = TRUE]
        hdr == FreadBytes(data, WZero, SITHDRLEN)
        \* fclose(fp) then close(fd): the stream's descriptor is closed by
        \* fclose, the second close acts on a closed descriptor
        failed == [opened EXCEPT !.fp = "closed", !.fdOpen = FALSE,
                                 !.closes = 2, !.pos = WInt(Len(hdr))]
        haveMagic1 == \E i \in 1..Len(gSitMagicNumber1s) :
                          MagicAt(hdr, SitHdrOffsetSig1, gSitMagicNumber1s[i])
    IN  IF ~canOpen
        THEN [ret |-> gSitErr, sf |-> cleared]
        ELSE IF Len(hdr) # SITHDRLEN
        THEN [ret |-> gSitErr, sf |-> failed]
        ELSE IF ~haveMagic1
        THEN [ret |-> gSitErr, sf |-> failed]
        ELSE IF ~MagicAt(hdr, SitHdrOffsetSig2, gSitMagicNumber2)
        THEN [ret |-> gSitErr, sf |-> failed]
        ELSE [ret |-> gSitOkay,
              sf |-> [opened EXCEPT
                        !.pos = WInt(SITHDRLEN),
                        !.numEntries = getUShort(hdr, SitHdrOffSetNumFiles),
                        !.archiveLen = getULong(hdr, SitHdrOffsetArchiveLen),
                        !.version = UChar(CharAt(hdr, SitHdrOffsetVersion))]]

\* sitReleaseFileHandle(sitFile)
sitReleaseFileHandle(sf) ==
    LET afterFclose ==
            IF sf.fp # "NULL"
            THEN [sf EXCEPT !.fdOpen = FALSE, !.closes = sf.closes + 1]
            ELSE sf
        fcloseFailed == sf.fp # "NULL" /\ ~sf.fdOpen
        closeFailed == sf.fd >= 0 /\ ~afterFclose.fdOpen
        afterClose ==
            IF sf.fd >= 0
            THEN [afterFclose EXCEPT !.fdOpen = FALSE,
                                     !.closes = afterFclose.closes + 1]
            ELSE afterFclose
    IN  [ret |-> IF fcloseFailed \/ closeFailed THEN gSitErr ELSE gSitOkay,
         sf |-> [afterClose EXCEPT !.fp = IF sf.fp = "NULL" THEN "NULL"
                                          ELSE "closed"]]

\* sitIsEntryEncrypted(entry)
sitIsEntryEncrypted(entry) ==
    IF entry.rsrcCompType = SitCompEncrypted THEN 1 ELSE 0

\* sitIsEntryFolder(entry)
sitIsEntryFolder(entry) ==
    IF entry.rsrcCompType = SitCompFolderStart THEN SitEntryFolderStart
    ELSE IF entry.rsrcCompType = SitCompFolderEnd THEN SitEntryFolderEnd
    ELSE 0

\* sitEntryGetCompressedSize(entry)
sitEntryGetCompressedSize(entry) ==
    WAdd(entry.rsrcCompLen, entry.dataCompLen)

\* sitEntryGetUnCompressedSize(entry)
sitEntryGetUnCompressedSize(entry) ==
    WAdd(entry.rsrcLen, entry.dataLen)

\* the entry record before the first sitGetNextEntry
SitEntryNone ==
    [rsrcCompType |-> 0, dataCompType |-> 0,
     name |-> Zeros(SITFNAMEMAX + 1), asciiName |-> Zeros(SITFNAMEMAX + 1),
     type |-> Zeros(5), creator |-> Zeros(5),
     finderFlags |-> 0, creationDate |-> WZero, modDate |-> WZero,
     rsrcLen |-> WZero, dataLen |-> WZero,
     rsrcCompLen |-> WZero, dataCompLen |-> WZero,
     rsrcCRC |-> 0, dataCRC |-> 0, hdrCRC |-> 0]

\* the length byte clamped to the whole of the name buffer
sitNameLenActualWhole(fHdrBuf) ==
    LET fNameLen == SITFNAMEMAX + 1
        declared == MaskByte(CharAt(fHdrBuf, SitEHdrOffsetNameLen))
    IN  IF declared >= fNameLen THEN fNameLen ELSE declared

\* the name length sitGetNextEntry copies: the length byte, clamped
sitNameLenActual(fHdrBuf) ==
    LET fNameLen == SITFNAMEMAX + 1
        declared == MaskByte(CharAt(fHdrBuf, SitEHdrOffsetNameLen))
    IN  IF declared >= fNameLen THEN fNameLen - 1 ELSE declared

\* the fields sitGetNextEntry decodes from the 112 header bytes
sitDecodeEntry(fHdrBuf) ==
    LET fNameLen == SITFNAMEMAX + 1
        n == sitNameLenActual(fHdrBuf)
        name == Strncpy(fNameLen, fHdrBuf, SitEHdrOffsetName, n)
    IN  [rsrcCompType |-> At(fHdrBuf, SitEHdrOffsetRsrcCompType),
         dataCompType |-> At(fHdrBuf, SitEHdrOffsetDataCompType),
         name |-> name,
         asciiName |-> macosroman2ascii(name, n, Zeros(fNameLen), n).out,
         type |-> Strncpy(5, fHdrBuf, SitEHdrOffsetType, 4),
         creator |-> Strncpy(5, fHdrBuf, SitEHdrOffsetCreator, 4),
         finderFlags |-> getUShort(fHdrBuf, SitEHdrOffsetFinderFlags),
         creationDate |-> getULong(fHdrBuf, SitEHdrOffsetCreationDate),
         modDate |-> getULong(fHdrBuf, SitEHdrOffsetModDate),
         rsrcLen |-> getULong(fHdrBuf, SitEHdrOffsetRsrcLen),
         dataLen |-> getULong(fHdrBuf, SitEHdrOffsetDataLen),
         rsrcCompLen |-> getULong(fHdrBuf, SitEHdrOffsetRsrcCompLen),
         dataCompLen |-> getULong(fHdrBuf, SitEHdrOffsetDataCompLen),
         rsrcCRC |-> getUShort(fHdrBuf, SitEHdrOffsetRsrcCRC),
         dataCRC |-> getUShort(fHdrBuf, SitEHdrOffsetDataCRC),
         hdrCRC |-> getUShort(fHdrBuf, SitEHdrOffsetCRC)]

\* the fseek offset after an entry header: the two compressed lengths, and
\* no seek at all for a folder start or a folder end
sitSkipLenAlways(entry) == WAdd(entry.rsrcCompLen, entry.dataCompLen)

\* no seek after any entry header
sitSkipLenNone(entry) == WZero

sitSkipLen(entry) ==
    IF entry.rsrcCompType # SitCompFolderStart
       /\ entry.rsrcCompType # SitCompFolderEnd
    THEN WAdd(entry.rsrcCompLen, entry.dataCompLen)
    ELSE WZero

\* sitGetNextEntry(sitFile, entry) on an open handle; readErr: the read
\* fails with an I/O error (ferror) instead of reaching the end of the file
sitGetNextEntry(sf, entry, data, readErr) ==
    LET fHdrBuf == FreadBytes(data, sf.pos, SITENTRYHDRLEN)
        short == [sf EXCEPT !.pos = WAdd(sf.pos, WInt(Len(fHdrBuf))),
                           !.eof = TRUE]
        decoded == sitDecodeEntry(fHdrBuf)
    IN  IF sf.eof
        THEN [ret |-> gSitEOF, sf |-> sf, entry |-> entry]
        ELSE IF readErr
        THEN [ret |-> gSitErr, sf |-> sf, entry |-> entry]
        ELSE IF Len(fHdrBuf) # SITENTRYHDRLEN
        THEN [ret |-> gSitEOF, sf |-> short, entry |-> entry]
        ELSE [ret |-> gSitOkay,
              sf |-> [sf EXCEPT !.pos = WAdd(WAdd(sf.pos, WInt(SITENTRYHDRLEN)),
                                             sitSkipLen(decoded))],
              entry |-> decoded]

(***************************************************************************)
(* StuffIt inputs: archives built from entry descriptions                  *)
(***************************************************************************)

\* the most entries an archive of the model holds
MaxSitEntries == 2

\* the most sitGetNextEntry calls made after the last entry was decoded
MaxSitExtraCalls == 2

BE2(v) == <<(v \div 256) % 256, v % 256>>

\* the four bytes of a wide value below 2^32, most significant first
BE4(w) == BE2(w[1]) \o BE2(w[2])

Fill(n, b) == [i \in 1..n |-> b]

RECURSIVE Concat(_)
Concat(ss) == IF Len(ss) = 0 THEN <<>> ELSE Head(ss) \o Concat(Tail(ss))

\* an entry description: compression type of the resource fork, declared
\* compressed lengths, declared name length and the byte its name is made of
SitEntryDescs ==
    [rtype : {0}, rclen : {0, 2}, dclen : {<<0, 50>>},
     nlen : {3}, nbyte : {97}]
    \cup [rtype : {0}, rclen : {0}, dclen : {<<0, 120>>},
          nlen : {3}, nbyte : {97}]
    \cup [rtype : {0}, rclen : {2}, dclen : {<<65535, 65535>>},
          nlen : {3}, nbyte : {97}]
    \cup [rtype : {SitCompFolderStart, SitCompFolderEnd},
          rclen : {0}, dclen : {<<0, 0>>, <<0, 50>>},
          nlen : {3}, nbyte : {97}]

\* the fork bytes an archive holds after an entry header: none for a folder
\* marker, the declared lengths for a file (none when they exceed the file)
SitForkBytes(d) ==
    IF d.rtype \in {SitCompFolderStart, SitCompFolderEnd} THEN <<>>
    ELSE IF d.dclen[1] # 0 THEN <<>>
    ELSE Fill(d.rclen + d.dclen[2], SitCompFolderStart)

\* the 112 bytes of an entry header
SitEntryBytes(d) ==
    <<d.rtype, 0, d.nlen>>
    \o Fill(Min(d.nlen, 63), d.nbyte) \o Zeros(63 - Min(d.nlen, 63))
    \o <<84, 69, 88, 84>> \o <<116, 116, 120, 116>>
    \o BE2(256) \o BE4(<<45776, 24064>>) \o BE4(<<45776, 24065>>)
    \o BE4(WInt(2 * d.rclen)) \o BE4(d.dclen)
    \o BE4(WInt(d.rclen)) \o BE4(d.dclen)
    \o BE2(4660) \o BE2(43981) \o Zeros(6) \o BE2(65244)

\* the 22 bytes of an archive header
SitHeaderBytes(magic1, n, alen, magic2, version) ==
    magic1 \o BE2(n) \o BE4(alen) \o magic2 \o <<version, 0>>
    \o Zeros(4) \o BE2(0)

SitArchive(ds, tail) ==
    LET body == Concat([i \in 1..Len(ds) |->
                           SitEntryBytes(ds[i]) \o SitForkBytes(ds[i])])
    IN  SitHeaderBytes(gSitMagicNumber1s[1], Len(ds),
                       WInt(SITHDRLEN + Len(body)), gSitMagicNumber2, 1)
        \o body \o Fill(tail, SitCompFolderEnd)

SitDescSeqs ==
    UNION {[1..n -> SitEntryDescs] : n \in 0..MaxSitEntries}

SitArchives == {SitArchive(ds, tail) : ds \in SitDescSeqs, tail \in {0, 5}}

(***************************************************************************)
(* The BinHex variables while a StuffIt archive is read, and back          *)
(***************************************************************************)

HqxIdle ==
    /\ hqxData = <<>>
    /\ hqx = [fd |-> -1]
    /\ hqxLog = <<>>
    /\ hqxSrc = [kind |-> "none"]

MrIdle == mr = [step |-> "none"]

QlIdle == ql = [fn |-> "none"]

SitIdle ==
    /\ sitData = <<>>
    /\ sitFile = SitHandleNone
    /\ sitEntry = SitEntryNone
    /\ sitLog = <<>>

(***************************************************************************)
(* SpecSit: a caller opens an archive, lists its entries and releases it   *)
(***************************************************************************)

InitSit ==
    /\ sitData \in SitArchives
    /\ sitFile = SitHandleNone
    /\ sitEntry = SitEntryNone
    /\ sitLog = <<>>
    /\ HqxIdle
    /\ MrIdle
    /\ QlIdle

SitCalls(op) == Len(SelectSeq(sitLog, LAMBDA r : r.op = op))

SitInit ==
    /\ sitLog = <<>>
    /\ \E canOpen \in BOOLEAN :
          LET r == sitInitFileHandle(sitData, canOpen)
          IN  /\ sitFile' = r.sf
              /\ sitLog' = Append(sitLog,
                     [op |-> "init", ret |-> r.ret, pre |-> WZero,
                      post |-> r.sf.pos, folder |-> 0,
                      ioErr |-> ~canOpen])
    /\ UNCHANGED <<sitData, sitEntry, hqxData, hqx, hqxLog, hqxSrc, mr, ql>>

SitNext ==
    /\ sitLog # <<>>
    /\ sitLog[1].ret = gSitOkay
    /\ sitFile.fp = "open"
    /\ SitCalls("next") < MaxSitEntries + MaxSitExtraCalls
    /\ \E readErr \in BOOLEAN :
          LET r == sitGetNextEntry(sitFile, sitEntry, sitData, readErr)
          IN  /\ sitFile' = r.sf
              /\ sitEntry' = r.entry
              /\ sitLog' = Append(sitLog,
                     [op |-> "next", ret |-> r.ret, pre |-> sitFile.pos,
                      post |-> r.sf.pos,
                      folder |-> sitIsEntryFolder(r.entry),
                      ioErr |-> readErr /\ ~sitFile.eof])
    /\ UNCHANGED <<sitData, hqxData, hqx, hqxLog, hqxSrc, mr, ql>>

SitRelease ==
    /\ sitLog # <<>>
    /\ sitLog[1].ret = gSitOkay
    /\ sitFile.fp = "open"
    /\ LET r == sitReleaseFileHandle(sitFile)
       IN  /\ sitFile' = r.sf
           /\ sitLog' = Append(sitLog,
                  [op |-> "release", ret |-> r.ret, pre |-> sitFile.pos,
                   post |-> r.sf.pos, folder |-> 0, ioErr |-> FALSE])
    /\ UNCHANGED <<sitData, sitEntry, hqxData, hqx, hqxLog, hqxSrc, mr, ql>>

NextSit == SitInit \/ SitNext \/ SitRelease

SpecSit == InitSit /\ [][NextSit]_vars

\* the last call recorded
SitLast == sitLog[Len(sitLog)]

\* the 112 header bytes the last sitGetNextEntry call read
SitLastHeader == FreadBytes(sitData, SitLast.pre, SITENTRYHDRLEN)

\* C1: after a sitGetNextEntry that returns gSitOkay the stream stands at
\* the position before the call + 112 + rsrcCompLen + dataCompLen of the
\* decoded entry (the big-endian values at offsets 92 and 96 of the header
\* just read) when rsrcCompType is neither 32 nor 33, and at the position
\* before the call + 112 for a folder start or end whatever its length
\* fields hold; a folder start directly followed by a folder end advances
\* the stream by 224 bytes and the two are classified as SitEntryFolderStart
\* and SitEntryFolderEnd.
C1_StreamPosition ==
    /\ (sitLog # <<>> /\ SitLast.op = "next" /\ SitLast.ret = gSitOkay) =>
          /\ sitEntry.rsrcCompType = At(SitLastHeader, 0)
          /\ sitEntry.rsrcCompLen = getULong(SitLastHeader, 92)
          /\ sitEntry.dataCompLen = getULong(SitLastHeader, 96)
          /\ sitFile.pos = SitLast.post
          /\ sitEntry.rsrcCompType \notin {32, 33} =>
                SitLast.post = WAdd(WAdd(SitLast.pre, WInt(112)),
                                    WAdd(sitEntry.rsrcCompLen,
                                         sitEntry.dataCompLen))
          /\ sitEntry.rsrcCompType \in {32, 33} =>
                SitLast.post = WAdd(SitLast.pre, WInt(112))
    /\ \A i \in 1..(Len(sitLog) - 1) :
          (/\ sitLog[i].op = "next" /\ sitLog[i].ret = gSitOkay
           /\ sitLog[i + 1].op = "next" /\ sitLog[i + 1].ret = gSitOkay
           /\ At(FreadBytes(sitData, sitLog[i].pre, 1), 0) = 32
           /\ At(FreadBytes(sitData, WAdd(sitLog[i].pre, WInt(112)), 1),
                 0) = 33) =>
              /\ sitLog[i + 1].post = WAdd(sitLog[i].pre, WInt(224))
              /\ sitLog[i].folder = SitEntryFolderStart
              /\ sitLog[i + 1].folder = SitEntryFolderEnd

\* C1 witness: a folder start with non-zero length fields was decoded and
\* directly followed by a folder end, and a file with fork bytes was skipped
C1_Witness ==
    /\ Len(sitLog) >= 3
    /\ sitLog[2].op = "next" /\ sitLog[2].ret = gSitOkay
    /\ sitLog[2].folder = SitEntryFolderStart
    /\ getULong(FreadBytes(sitData, sitLog[2].pre, 112), 96) = WInt(50)
    /\ sitLog[3].op = "next" /\ sitLog[3].ret = gSitOkay
    /\ sitLog[3].folder = SitEntryFolderEnd
    /\ sitLog[3].post = WAdd(sitLog[2].pre, WInt(224))

\* the bytes of the archive that lie at and after the position pos
SitBytesLeft(pos) ==
    IF pos[1] # 0 THEN 0 ELSE Max(0, Len(sitData) - pos[2])

\* C11: sitGetNextEntry returns gSitEOF only when the stream is at the end
\* of the file with no header byte available; when between 1 and 111 bytes
\* remain before the end of the file it returns gSitErr, not gSitEOF.
C11_TruncatedHeader ==
    \A i \in 1..Len(sitLog) :
        sitLog[i].op = "next" =>
            /\ sitLog[i].ret = gSitEOF => SitBytesLeft(sitLog[i].pre) = 0
            /\ SitBytesLeft(sitLog[i].pre) \in 1..(SITENTRYHDRLEN - 1) =>
                  sitLog[i].ret = gSitErr

\* the bytes of the archive from offset pos on are exactly k file entries,
\* each a header followed by the fork bytes it declares
RECURSIVE SitFileBody(_, _)
SitFileBody(pos, k) ==
    IF k = 0 THEN pos = Len(sitData)
    ELSE /\ pos + SITENTRYHDRLEN <= Len(sitData)
         /\ At(sitData, pos + SitEHdrOffsetRsrcCompType)
               \notin {SitCompFolderStart, SitCompFolderEnd}
         /\ LET forks == WAdd(getULong(sitData, pos + SitEHdrOffsetRsrcCompLen),
                              getULong(sitData, pos + SitEHdrOffsetDataCompLen))
            IN  /\ forks[1] = 0
                /\ SitFileBody(pos + SITENTRYHDRLEN + forks[2], k - 1)

\* the archive is a header that declares numEntries = n and n file entries
SitIsFileArchive ==
    SitFileBody(SITHDRLEN, getUShort(sitData, SitHdrOffSetNumFiles))

\* no read of the calls recorded has failed with an I/O error
SitNoReadError == \A i \in 1..Len(sitLog) : ~sitLog[i].ioErr

\* C12: on an archive whose header declares numEntries = n and whose body
\* is exactly n file entries, each a 112-byte header followed by its
\* rsrcCompLen + dataCompLen fork bytes, sitGetNextEntry returns gSitOkay on
\* the calls 1..n and gSitEOF on call n + 1 and on every later call (the
\* reads meeting no I/O error).
C12_EntryCount ==
    (SitIsFileArchive /\ SitNoReadError) =>
        \A i \in 2..Len(sitLog) :
            sitLog[i].op = "next" =>
                sitLog[i].ret = IF i - 1 <= getUShort(sitData, SitHdrOffSetNumFiles)
                                THEN gSitOkay ELSE gSitEOF

\* C12 witness: two files with dataCompLen = 50 and rsrcCompLen = 0 were
\* listed and two further calls reported the end of the entries
C12_Witness ==
    /\ SitIsFileArchive /\ SitNoReadError
    /\ getUShort(sitData, SitHdrOffSetNumFiles) = 2
    /\ Len(sitData) = SITHDRLEN + 2 * (SITENTRYHDRLEN + 50)
    /\ Len(sitLog) = 5
    /\ \A i \in 2..3 : sitLog[i].op = "next" /\ sitLog[i].ret = gSitOkay
    /\ \A i \in 4..5 : sitLog[i].op = "next" /\ sitLog[i].ret = gSitEOF
    /\ sitEntry.dataCompLen = WInt(50) /\ sitEntry.rsrcCompLen = WZero

(***************************************************************************)
(* SpecSitName: the same caller on entries with names of every length      *)
(***************************************************************************)

\* the declared name lengths: none, short, the 63 bytes of the name field,
\* the capacity of entry->name less one, the capacity, and more
SitNameLens == {0, 1, 63, SITFNAMEMAX, SITFNAMEMAX + 1, 128, 255}

\* the byte the name field is filled with: 'a', the bullet, and zero
SitNameBytes == {97, 165, 0}

\* one file entry with a data fork of 50 bytes under each name
SitNameDescs ==
    [rtype : {0}, rclen : {0}, dclen : {<<0, 50>>},
     nlen : SitNameLens, nbyte : SitNameBytes]

SitNameArchives == {SitArchive(<<d>>, 0) : d \in SitNameDescs}

InitSitName ==
    /\ sitData \in SitNameArchives
    /\ sitFile = SitHandleNone
    /\ sitEntry = SitEntryNone
    /\ sitLog = <<>>
    /\ HqxIdle
    /\ MrIdle
    /\ QlIdle

SpecSitName == InitSitName /\ [][NextSit]_vars

\* the last call is a sitGetNextEntry that had a whole entry header to read
SitEntryRead ==
    /\ sitLog # <<>>
    /\ SitLast.op = "next" /\ ~SitLast.ioErr
    /\ SitBytesLeft(SitLast.pre) >= SITENTRYHDRLEN

\* the name length byte of the header the last call read
SitDeclaredNameLen == sitData[SitLast.pre[2] + SitEHdrOffsetNameLen + 1]

\* byte i (from 1) of the name field of the header the last call read
SitNameFieldByte(i) == sitData[SitLast.pre[2] + SitEHdrOffsetName + i]

\* C15: sitGetNextEntry clamps the declared name length (0..255) to the
\* capacity of entry->name less one before it copies: nothing is written
\* past entry->name, the stored name ends in a zero byte, and an entry whose
\* declared length is longer is decoded (gSitOkay) with its name cut to the
\* clamped length rather than refused.
C15_NameClamp ==
    SitEntryRead =>
        /\ SitLast.ret = gSitOkay
        /\ Len(sitEntry.name) = SITFNAMEMAX + 1
        /\ sitEntry.name[SITFNAMEMAX + 1] = 0
        /\ \A i \in 1..(SITFNAMEMAX + 1) :
              sitEntry.name[i] =
                  IF /\ i <= SitDeclaredNameLen
                     /\ i <= SITFNAMEMAX
                     /\ \A j \in 1..i : SitNameFieldByte(j) # 0
                  THEN SitNameFieldByte(i) ELSE 0

\* C15 witness: an entry declaring a name of 255 bytes was decoded, its name
\* 64 bytes and a zero
C15_Witness ==
    /\ SitEntryRead
    /\ SitDeclaredNameLen = 255
    /\ SitLast.ret = gSitOkay
    /\ \A i \in 1..SITFNAMEMAX : sitEntry.name[i] # 0
    /\ sitEntry.name[SITFNAMEMAX + 1] = 0

(***************************************************************************)
(* SpecSitHdr: the same caller on archive headers of every kind            *)
(***************************************************************************)

\* the first four bytes of the headers: the nine tags, and "SIT?", "sit!",
\* "ST47" and four zero bytes
SitHdrTags ==
    {gSitMagicNumber1s[i] : i \in 1..Len(gSitMagicNumber1s)}
        \cup {<<83, 73, 84, 63>>, <<115, 105, 116, 33>>, <<83, 84, 52, 55>>,
              Zeros(4)}

\* bytes 10-13 of the headers: "rLau", and "RLau", "rLaU" and "rLa\0"
SitHdrSig2s ==
    {gSitMagicNumber2, <<82, 76, 97, 117>>, <<114, 76, 97, 85>>,
     <<114, 76, 97, 0>>}

\* the entry counts, archive lengths and versions of the headers, with
\* bytes of 0x80 and more among them
SitHdrCounts == {0, 1, 256, 33023, 65535}

SitHdrLens == {<<0, 22>>, <<1, 33023>>, <<32768, 0>>, <<65535, 65535>>}

SitHdrVersions == {0, 1, 128, 255}

\* the lengths to which a header is cut
SitHdrCuts == {0, 1, 4, 13, 21}

\* the entry that follows a header: a file with a data fork of 50 bytes
SitFileDescs ==
    {d \in SitEntryDescs : d.rtype = 0 /\ d.rclen = 0 /\ d.dclen = <<0, 50>>}

\* the files: every header that passes the checks, alone and followed by an
\* entry; headers that fail one check or both; headers cut short
SitHdrFiles ==
    {SitHeaderBytes(gSitMagicNumber1s[i], n, alen, gSitMagicNumber2, v) \o body :
        i \in 1..Len(gSitMagicNumber1s), n \in SitHdrCounts,
        alen \in SitHdrLens, v \in SitHdrVersions,
        body \in {<<>>}}
    \cup {SitHeaderBytes(gSitMagicNumber1s[1], 1, WInt(SITHDRLEN), gSitMagicNumber2, 1)
              \o SitEntryBytes(d) \o SitForkBytes(d) : d \in SitFileDescs}
    \cup {SitHeaderBytes(t, 1, WInt(SITHDRLEN + SITENTRYHDRLEN), m, 1)
              \o SitEntryBytes(d) : t \in SitHdrTags, m \in SitHdrSig2s,
                                    d \in SitFileDescs}
    \cup {SubSeq(SitHeaderBytes(gSitMagicNumber1s[1], 0, WInt(SITHDRLEN),
                                gSitMagicNumber2, 1), 1, k) : k \in SitHdrCuts}

InitSitHdr ==
    /\ sitData \in SitHdrFiles
    /\ sitFile = SitHandleNone
    /\ sitEntry = SitEntryNone
    /\ sitLog = <<>>
    /\ HqxIdle
    /\ MrIdle
    /\ QlIdle

SpecSitHdr == InitSitHdr /\ [][NextSit]_vars

\* sitInitFileHandle has been called
SitInitCalled == sitLog # <<>> /\ sitLog[1].op = "init"

\* bytes 0-3 of the file are one of the nine version tags
SitTagKnown ==
    SubSeq(sitData, 1, 4) \in
        {<<83, 73, 84, 33>>, <<83, 84, 52, 54>>, <<83, 84, 53, 48>>,
         <<83, 84, 54, 48>>, <<83, 84, 54, 53>>, <<83, 84, 105, 110>>,
         <<83, 84, 105, 50>>, <<83, 84, 105, 51>>, <<83, 84, 105, 52>>}

\* the file passes the three checks of its header
SitHeaderGood ==
    /\ Len(sitData) >= 22
    /\ SitTagKnown
    /\ SubSeq(sitData, 11, 14) = <<114, 76, 97, 117>>

\* C13: sitInitFileHandle returns gSitErr, the file closed and no entry
\* obtainable from the handle, whenever fewer than 22 header bytes can be
\* read, bytes 0-3 are none of the nine version tags, or bytes 10-13 are not
\* "rLau"; it returns gSitOkay for every file that can be opened and passes
\* the three checks.
C13_HeaderChecks ==
    SitInitCalled =>
        /\ ~SitHeaderGood =>
              /\ sitLog[1].ret = gSitErr
              /\ ~sitFile.fdOpen /\ sitFile.fp # "open"
              /\ \A i \in 1..Len(sitLog) : sitLog[i].op # "next"
        /\ (SitHeaderGood /\ ~sitLog[1].ioErr) => sitLog[1].ret = gSitOkay

\* C13 witness: a file with a known tag whose bytes 10-13 are "rLaU" was
\* opened, refused and closed
C13_Witness ==
    /\ SitInitCalled
    /\ Len(sitData) >= 22 /\ SitTagKnown
    /\ SubSeq(sitData, 11, 14) = <<114, 76, 97, 85>>
    /\ ~sitLog[1].ioErr
    /\ sitLog[1].ret = gSitErr
    /\ sitFile.closes > 0 /\ ~sitFile.fdOpen

\* C14: when sitInitFileHandle succeeds the handle holds numEntries =
\* 256 * hdr[4] + hdr[5], archiveLen = the unsigned big-endian 32-bit value
\* of hdr[6..9] and version = hdr[14], the bytes taken as unsigned, bytes of
\* 0x80 and more included.
C14_HeaderFields ==
    (SitInitCalled /\ sitLog[1].ret = gSitOkay) =>
        /\ sitFile.numEntries = 256 * sitData[5] + sitData[6]
        /\ sitFile.archiveLen = <<256 * sitData[7] + sitData[8],
                                  256 * sitData[9] + sitData[10]>>
        /\ sitFile.version = sitData[15]

\* C14 witness: a header with numEntries 0x80FF, archiveLen 0x80000000 and
\* version 0x80 was accepted
C14_Witness ==
    /\ SitInitCalled /\ sitLog[1].ret = gSitOkay
    /\ Len(sitData) >= 22
    /\ SubSeq(sitData, 5, 10) = <<128, 255, 128, 0, 0, 0>>
    /\ sitData[15] = 128
    /\ sitFile.numEntries = 33023
    /\ sitFile.archiveLen = <<32768, 0>>
    /\ sitFile.version = 128

(***************************************************************************)
(* binhex.h / binhex.c: constants                                          *)
(***************************************************************************)

gHqxErr == -1

gHqxOkay == 0

EOF == -1

HQXFNAMEMAX == 64

RUNCHAR == 144

CRCCONSTANT == 4129

OPT_NONE == 0

OPT_EXCLUDE_FROM_CRC == 1

\* sizeof(hqxFile->readBuf)
HqxReadBufLen == 1024

\* the number of entries of gHqxValidCharsLookupTable
HqxTableLen == 83

\* the descriptor open(2) returns
HqxFd == 3

gMaxBuf == 8192

\* gHqxValidChars:
\* !"#$%&'()*+,-012345689@ABCDEFGHIJKLMNPQRSTUVXYZ[`abcdefhijklmpqr
gHqxValidChars ==
    <<33, 34, 35, 36, 37, 38, 39, 40, 41, 42, 43, 44, 45, 48, 49, 50, 51,
      52, 53, 54, 56, 57, 64, 65, 66, 67, 68, 69, 70, 71, 72, 73, 74, 75,
      76, 77, 78, 80, 81, 82, 83, 84, 85, 86, 88, 89, 90, 91, 96, 97, 98,
      99, 100, 101, 102, 104, 105, 106, 107, 108, 109, 112, 113, 114>>

\* gHqxValidCharsLookupTable, the initialisers as written (0xFF is 255)
gHqxValidCharsLookupTable ==
    <<255, 0, 1, 2, 3, 4, 5, 6, 7, 8, 9, 10, 11, 12, 255, 255, 13, 14, 15,
      16, 17, 18, 19, 255, 20, 21, 255, 255, 255, 255, 255, 255, 22, 23, 24,
      25, 26, 27, 28, 29, 30, 31, 32, 33, 34, 35, 36, 255, 37, 38, 39, 40,
      41, 42, 43, 255, 44, 45, 46, 47, 255, 255, 255, 255, 48, 49, 50, 51,
      52, 53, 54, 255, 55, 56, 57, 58, 59, 60, 255, 255, 61, 62, 63>>

(***************************************************************************)
(* binhex.c: functions                                                     *)
(***************************************************************************)

\* the header record as hqxInitFileHandle leaves it
HqxHeaderNone ==
    [name |-> Zeros(HQXFNAMEMAX), asciiName |-> Zeros(HQXFNAMEMAX),
     type |-> Zeros(5), creator |-> Zeros(5), flags |-> 0,
     dataLen |-> <<-1, 65535>>, rsrcLen |-> <<-1, 65535>>, headerCRC |-> 0]

\* a handle no function has initialised; oob is the byte the build placed
\* in front of gHqxValidCharsLookupTable, read as a char
HqxHandleNone(oob) == [fd |-> -1, oob |-> oob]

\* hqxInitFileHandle(fname, hqxFile) when open(2) and fdopen(3) succeed:
\* fpos is the offset of the descriptor, readBufBase the offset the read
\* buffer was filled from, raw and got the history of the bytes delivered
\* by hqxGetByteRaw and of the number delivered by hqxGetByteWithOptions
hqxInitFileHandle(oob) ==
    [fd |-> HqxFd, oob |-> oob, fp |-> "open", fpos |-> 0,
     crc |-> 0, dataCRC |-> 0, rsrcCRC |-> 0,
     repeat |-> 0, repeatChar |-> 0, eof |-> 0,
     haveExtractedDataFork |-> 0,
     readBufBase |-> 0, readBufIndex |-> -1, readBufSize |-> -1,
     readBufAtEOF |-> 0,
     outputBuffer |-> Zeros(3), outputPtr |-> 0,
     hqxHeader |-> HqxHeaderNone,
     raw |-> <<>>, got |-> 0]

\* hqxReleaseFileHandle(hqxFile)
hqxReleaseFileHandle(h) ==
    IF h.fp # "NULL"
    THEN [ret |-> IF h.fp = "open" THEN 0 ELSE EOF,
          h |-> [h EXCEPT !.fp = "closed"]]
    ELSE [ret |-> gHqxErr, h |-> h]

\* strchr(gHqxValidChars, c) != NULL for the byte c held in a char: the
\* terminating zero of the string is part of it
InValidChars(c) ==
    \/ c = 0
    \/ \E i \in 1..Len(gHqxValidChars) : gHqxValidChars[i] = c

\* the loop of hqxFindHeader from offset pos of the descriptor
RECURSIVE hqxFindLoop(_, _, _, _)
hqxFindLoop(data, pos, lineStart, headerStart) ==
    IF pos >= Len(data)
    THEN [rc |-> gHqxErr, pos |-> pos]
    ELSE LET c == data[pos + 1]
         IN  IF c = 10 \/ c = 13
             THEN hqxFindLoop(data, pos + 1, 1, headerStart)
             ELSE IF c = 58
             THEN hqxFindLoop(data, pos + 1, lineStart,
                              IF lineStart = 1 THEN 1 ELSE headerStart)
             ELSE IF headerStart = 1 /\ InValidChars(c)
             THEN [rc |-> gHqxOkay, pos |-> pos]
             ELSE hqxFindLoop(data, pos + 1, 0, 0)

\* hqxFindHeader(hqxFile): on success the descriptor is moved back by one
hqxFindHeader(h, data) ==
    IF h.fd < 0
    THEN [rc |-> gHqxErr, h |-> h]
    ELSE LET r == hqxFindLoop(data, h.fpos, 0, 0)
         IN  [rc |-> r.rc, h |-> [h EXCEPT !.fpos = r.pos]]

\* the value hqxGet6Bits computes for a char that is no line break, ':' or
\* EOF: the table entry read as a char, whatever lies in front of the table
\* for a negative index, and 0xff for an index of 83 or more
hqxTableValue(h, nextChar) ==
    IF nextChar - 32 < HqxTableLen
    THEN IF nextChar - 32 >= 0
         THEN SChar(gHqxValidCharsLookupTable[nextChar - 32 + 1])
         ELSE h.oob
    ELSE 255

\* hqxGet6Bits(hqxFile)
RECURSIVE hqxGet6Loop(_, _)
hqxGet6Loop(h, data) ==
    LET needRead == \/ h.readBufIndex = -1 \/ h.readBufSize = -1
                    \/ h.readBufIndex >= h.readBufSize
        n == Min(HqxReadBufLen, Max(0, Len(data) - h.fpos))
        h1 == IF needRead
              THEN [h EXCEPT !.readBufSize = n, !.readBufBase = h.fpos,
                             !.fpos = h.fpos + n,
                             !.readBufIndex = IF n = 0 THEN h.readBufIndex
                                              ELSE 0]
              ELSE h
    IN  IF needRead /\ n = 0
        THEN [c |-> EOF, h |-> [h1 EXCEPT !.readBufAtEOF = 1]]
        ELSE LET nextChar == SChar(data[h1.readBufBase + h1.readBufIndex + 1])
                 h2 == [h1 EXCEPT !.readBufIndex = h1.readBufIndex + 1]
                 tc == hqxTableValue(h, nextChar)
             IN  IF nextChar = 10 \/ nextChar = 13
                 THEN hqxGet6Loop(h2, data)
                 ELSE IF nextChar = 58 \/ nextChar = EOF
                 THEN [c |-> EOF, h |-> [h2 EXCEPT !.readBufAtEOF = 1]]
                 ELSE IF tc # 255
                 THEN [c |-> tc, h |-> h2]
                 ELSE [c |-> EOF, h |-> [h2 EXCEPT !.readBufAtEOF = 1]]

hqxGet6Bits(h, data) ==
    IF h.fd < 0 \/ h.readBufAtEOF # 0
    THEN [c |-> EOF, h |-> h]
    ELSE hqxGet6Loop(h, data)

\* three bytes taken from the chars of readBuffer without any shift
hqxPackNoShift(rb) == <<rb[1] % 256, rb[2] % 256, rb[3] % 256>>

\* the three bytes hqxGetByteRaw packs from the four chars of readBuffer
hqxPack(rb) ==
    <<BitOr((rb[1] * 4) % 256, (rb[2] \div 16) % 256, 8),
      BitOr((rb[2] * 16) % 256, (rb[3] \div 4) % 256, 8),
      BitOr((rb[3] * 64) % 256, rb[4] % 256, 8)>>

\* the loop of hqxGetByteRaw that fills readBuffer[i .. 3]: done is FALSE
\* when the function returns EOF from inside the loop
RECURSIVE hqxFillLoop(_, _, _, _)
hqxFillLoop(h, data, rb, i) ==
    IF i > 3
    THEN [done |-> TRUE, h |-> h, rb |-> rb]
    ELSE Only({IF r.c = EOF /\ i <= 1
               THEN [done |-> FALSE, h |-> r.h, rb |-> rb]
               ELSE IF r.c = EOF
               THEN hqxFillLoop([r.h EXCEPT !.eof = IF i = 2 THEN 1 ELSE 2],
                                data, [rb EXCEPT ![i + 1] = r.c], i + 1)
               ELSE hqxFillLoop(r.h, data, [rb EXCEPT ![i + 1] = r.c], i + 1)
               : r \in {hqxGet6Bits(h, data)}})

\* what hqxGetByteRaw does once outputBuffer holds the bytes to hand out
hqxTakeByte(h) ==
    IF h.eof # 0 /\ h.outputPtr >= h.outputPtr + h.eof
    THEN [c |-> EOF, h |-> h]
    ELSE [c |-> h.outputBuffer[h.outputPtr + 1],
          h |-> [h EXCEPT !.outputPtr = (h.outputPtr + 1) % 3,
                          !.raw = Append(h.raw,
                                         h.outputBuffer[h.outputPtr + 1])]]

\* hqxGetByteRaw(hqxFile)
hqxGetByteRaw(h, data) ==
    IF h.fd < 0 THEN [c |-> EOF, h |-> h]
    ELSE IF h.outputPtr # 0 THEN hqxTakeByte(h)
    ELSE Only({IF ~f.done
               THEN [c |-> EOF, h |-> f.h]
               ELSE hqxTakeByte([f.h EXCEPT !.outputBuffer = hqxPack(f.rb)])
               : f \in {hqxFillLoop(h, data, Zeros(4), 0)}})

\* the byte a run of r copies delivers first and the count it leaves, the
\* count byte r being neither EOF nor 0
hqxRunStartNoOffset(h, r) == [h EXCEPT !.repeat = r - 1]

hqxRunStart(h, r) == [h EXCEPT !.repeat = r - 2]

\* hqxGetByteWithRL(hqxFile) from the byte that follows a run marker on
hqxGetRunCount(h, data) ==
    Only({IF r.c = EOF
          THEN [c |-> EOF, h |-> [r.h EXCEPT !.repeat = EOF, !.eof = 1]]
          ELSE IF r.c = 0
          THEN [c |-> RUNCHAR,
                h |-> [r.h EXCEPT !.repeat = 0, !.repeatChar = RUNCHAR]]
          ELSE [c |-> r.h.repeatChar, h |-> hqxRunStart(r.h, r.c)]
          : r \in {hqxGetByteRaw(h, data)}})

\* hqxGetByteWithRL(hqxFile)
hqxGetByteWithRL(h, data) ==
    IF h.fd < 0 THEN [c |-> EOF, h |-> h]
    ELSE IF h.repeat > 0
    THEN [c |-> h.repeatChar, h |-> [h EXCEPT !.repeat = h.repeat - 1]]
    ELSE Only({IF r.c = EOF
               THEN [c |-> EOF, h |-> [r.h EXCEPT !.eof = 1]]
               ELSE IF r.c # RUNCHAR
               THEN [c |-> r.c, h |-> [r.h EXCEPT !.repeatChar = r.c]]
               ELSE hqxGetRunCount(r.h, data)
               : r \in {hqxGetByteRaw(h, data)}})

\* one bit of a checksum that shifts and never applies the polynomial
hqxCRCBitNoXor(crc, bit) == ((crc * 2) % 65536) + bit

\* one bit of hqxUpdateCRC: crc is the 16-bit pattern of the short; the bit
\* or-ed in after the shift lands on a cleared bit
hqxCRCBit(crc, bit) ==
    LET shifted == ((crc * 2) % 65536) + bit
    IN  IF crc >= 32768 THEN BitXor(shifted, CRCCONSTANT, 16) ELSE shifted

\* hqxUpdateCRC(c, hqxFile): the eight bits of c, most significant first
RECURSIVE hqxCRCLoop(_, _, _)
hqxCRCLoop(crc, c, i) ==
    IF i = 8 THEN crc
    ELSE hqxCRCLoop(hqxCRCBit(crc, c \div 128), (c * 2) % 256, i + 1)

hqxUpdateCRC(c, h) ==
    IF h.fd < 0 THEN h ELSE [h EXCEPT !.crc = hqxCRCLoop(h.crc, c, 0)]

\* hqxGetByteWithOptions(hqxFile, options)
hqxGetByteWithOptions(h, data, options) ==
    IF h.fd < 0 THEN [c |-> EOF, h |-> h]
    ELSE Only({IF r.c = EOF THEN r
               ELSE [c |-> r.c,
                     h |-> [hqxUpdateCRC(IF options # OPT_EXCLUDE_FROM_CRC
                                         THEN r.c ELSE 0, r.h)
                               EXCEPT !.got = r.h.got + 1]]
               : r \in {hqxGetByteWithRL(h, data)}})

\* hqxGetByte(hqxFile)
hqxGetByte(h, data) == hqxGetByteWithOptions(h, data, OPT_NONE)

\* hqxVerifyCRC taking every pair of values for equal
hqxVerifyCRCAlways(calculatedCRC, expectedCRC) == 1

\* hqxVerifyCRC(calculatedCRC, expectedCRC) on the patterns of two shorts
hqxVerifyCRC(calculatedCRC, expectedCRC) ==
    IF calculatedCRC = expectedCRC THEN 1 ELSE 0

\* pass i of the loop of hqxGetBuffer: st holds the return value so far, the
\* handle and buf
hqxGetBufferStep(st, data, i) ==
    Only({IF r.c = EOF
          THEN [st EXCEPT !.rc = gHqxErr, !.h = r.h]
          ELSE [st EXCEPT !.h = r.h, !.buf[i + 1] = r.c]
          : r \in {hqxGetByte(st.h, data)}})

\* the passes i = lo .. hi of the loop, the first half of the range and
\* then the second
RECURSIVE hqxGetBufferLoop(_, _, _, _)
hqxGetBufferLoop(st, data, lo, hi) ==
    IF st.rc = gHqxErr \/ lo > hi THEN st
    ELSE IF lo = hi THEN hqxGetBufferStep(st, data, lo)
    ELSE Only({IF first.rc = gHqxErr THEN first
               ELSE hqxGetBufferLoop(first, data, ((lo + hi) \div 2) + 1, hi)
               : first \in {hqxGetBufferLoop(st, data, lo, (lo + hi) \div 2)}})

\* hqxGetBuffer(hqxFile, buf, len): buf is cleared over len bytes and filled
\* until a byte cannot be read
hqxGetBuffer(h, data, buf, len) ==
    IF h.fd < 0 \/ len <= 0
    THEN [rc |-> gHqxErr, h |-> h, buf |-> buf]
    ELSE hqxGetBufferLoop(
             [rc |-> gHqxOkay, h |-> h,
              buf |-> [i \in 1..Len(buf) |-> IF i <= len THEN 0 ELSE buf[i]]],
             data, 0, len - 1)

\* hqxGet2BytesWithOptions(hqxFile, options) from its second byte on, the
\* first being c
hqxGet2ndByte(h, data, options, c) ==
    Only({IF r.c = EOF THEN [v |-> 65535, h |-> r.h]
          ELSE [v |-> c * 256 + r.c, h |-> r.h]
          : r \in {hqxGetByteWithOptions(h, data, options)}})

\* hqxGet2BytesWithOptions(hqxFile, options): the 16-bit pattern of the
\* short returned; gHqxErr is the pattern 65535
hqxGet2BytesWithOptions(h, data, options) ==
    IF h.fd < 0 THEN [v |-> 65535, h |-> h]
    ELSE Only({IF r.c = EOF THEN [v |-> 65535, h |-> r.h]
               ELSE hqxGet2ndByte(r.h, data, options, r.c)
               : r \in {hqxGetByteWithOptions(h, data, options)}})

\* hqxGet2Bytes(hqxFile)
hqxGet2Bytes(h, data) == hqxGet2BytesWithOptions(h, data, OPT_NONE)

\* hqxGet4Bytes(hqxFile): the long returned, as a wide value
RECURSIVE hqxGet4Loop(_, _, _, _)
hqxGet4Loop(h, data, value, i) ==
    IF i = 4 THEN [v |-> value, h |-> h]
    ELSE Only({IF r.c = EOF THEN [v |-> <<-1, 65535>>, h |-> r.h]
               ELSE hqxGet4Loop(r.h, data, WShl8Or(value, r.c), i + 1)
               : r \in {hqxGetByte(h, data)}})

hqxGet4Bytes(h, data) ==
    IF h.fd < 0 THEN [v |-> <<-1, 65535>>, h |-> h]
    ELSE hqxGet4Loop(h, data, WZero, 0)

\* what hqxGetHeader returns with the handle h: gHqxErr when a read or the
\* check that follows it has failed
HqxHeaderResult(failed, h) ==
    [rc |-> IF failed THEN gHqxErr ELSE gHqxOkay, h |-> h]

\* hqxGetHeader(hqxFile): the header CRC, read outside the accumulator
hqxGetHeaderCRC(h, data) ==
    Only({HqxHeaderResult(\/ SShort(r.v) = gHqxErr
                          \/ hqxVerifyCRC(r.h.crc, r.v) = 0,
                          [r.h EXCEPT !.hqxHeader.headerCRC = r.v])
          : r \in {hqxGet2BytesWithOptions(h, data, OPT_EXCLUDE_FROM_CRC)}})

\* hqxGetHeader(hqxFile): the length of the resource fork
hqxGetHeaderRsrcLen(h, data) ==
    Only({IF WNeg(r.v)
          THEN HqxHeaderResult(TRUE, [r.h EXCEPT !.hqxHeader.rsrcLen = r.v])
          ELSE hqxGetHeaderCRC([r.h EXCEPT !.hqxHeader.rsrcLen = r.v], data)
          : r \in {hqxGet4Bytes(h, data)}})

\* hqxGetHeader(hqxFile): the length of the data fork
hqxGetHeaderDataLen(h, data) ==
    Only({IF WNeg(r.v)
          THEN HqxHeaderResult(TRUE, [r.h EXCEPT !.hqxHeader.dataLen = r.v])
          ELSE hqxGetHeaderRsrcLen([r.h EXCEPT !.hqxHeader.dataLen = r.v],
                                   data)
          : r \in {hqxGet4Bytes(h, data)}})

\* hqxGetHeader(hqxFile): the Finder flags
hqxGetHeaderFlags(h, data) ==
    Only({IF SShort(r.v) = gHqxErr
          THEN HqxHeaderResult(TRUE, [r.h EXCEPT !.hqxHeader.flags = r.v])
          ELSE hqxGetHeaderDataLen([r.h EXCEPT !.hqxHeader.flags = r.v], data)
          : r \in {hqxGet2Bytes(h, data)}})

\* hqxGetHeader(hqxFile): the creator
hqxGetHeaderCreator(h, data) ==
    Only({IF r.rc = gHqxErr
          THEN HqxHeaderResult(TRUE, [r.h EXCEPT !.hqxHeader.creator = r.buf])
          ELSE hqxGetHeaderFlags([r.h EXCEPT !.hqxHeader.creator = r.buf],
                                 data)
          : r \in {hqxGetBuffer(h, data, h.hqxHeader.creator, 4)}})

\* hqxGetHeader(hqxFile): the file type
hqxGetHeaderType(h, data) ==
    Only({IF r.rc = gHqxErr
          THEN HqxHeaderResult(TRUE, [r.h EXCEPT !.hqxHeader.type = r.buf])
          ELSE hqxGetHeaderCreator([r.h EXCEPT !.hqxHeader.type = r.buf],
                                   data)
          : r \in {hqxGetBuffer(h, data, h.hqxHeader.type, 4)}})

\* hqxGetHeader(hqxFile): the name of nameLen bytes, its terminating zero
\* among them, and its transliteration
hqxGetHeaderName(h, data, nameLen) ==
    Only({IF r.rc = gHqxErr
          THEN HqxHeaderResult(TRUE, [r.h EXCEPT !.hqxHeader.name = r.buf])
          ELSE hqxGetHeaderType(
                   [r.h EXCEPT !.hqxHeader.name = r.buf,
                               !.hqxHeader.asciiName =
                                   macosroman2ascii(r.buf, HQXFNAMEMAX,
                                                    @, HQXFNAMEMAX).out],
                   data)
          : r \in {hqxGetBuffer(h, data, h.hqxHeader.name, nameLen)}})

\* hqxGetHeader(hqxFile): the length of the name
hqxGetHeaderNameLen(h, data) ==
    Only({IF r.c = EOF \/ r.c + 1 >= HQXFNAMEMAX
          THEN HqxHeaderResult(TRUE, r.h)
          ELSE hqxGetHeaderName(r.h, data, r.c + 1)
          : r \in {hqxGetByte(h, data)}})

\* hqxGetHeader(hqxFile)
hqxGetHeader(h, data) ==
    IF h.fd < 0 THEN HqxHeaderResult(TRUE, h)
    ELSE Only({IF f.rc # gHqxOkay
               THEN HqxHeaderResult(TRUE, f.h)
               ELSE hqxGetHeaderNameLen(f.h, data)
               : f \in {hqxFindHeader(h, data)}})

\* the value of a wide value that is in 0 .. 2^31 - 1
WVal(w) == w[1] * 65536 + w[2]

\* what hqxExtractFork returns: the return value, the handle, the bytes
\* written to the output file and the return statement taken
HqxForkResult(rc, h, wrote, why) ==
    [rc |-> rc, h |-> h, wrote |-> wrote, why |-> why]

\* hqxExtractFork for a fork whose length is 0: the CRC of a data fork is
\* read and stored, that of a resource fork is left unread
hqxSkipEmptyFork(h, data, isRsrc) ==
    IF isRsrc
    THEN HqxForkResult(gHqxOkay, h, <<>>, "empty")
    ELSE Only({HqxForkResult(gHqxOkay, [r.h EXCEPT !.dataCRC = r.v], <<>>,
                             "empty")
               : r \in {hqxGet2Bytes(h, data)}})

\* one pass of the read / write loop of hqxExtractFork: st holds the handle,
\* j, the first j bytes of outBuf, err, the bytes written, and whether the
\* loop was left by break
hqxForkStep(st, data, env) ==
    Only({IF r.c = EOF
          THEN [st EXCEPT !.h = r.h, !.err = -1, !.stop = TRUE]
          ELSE IF st.j < gMaxBuf
          THEN [st EXCEPT !.h = r.h, !.buf = Append(st.buf, r.c),
                          !.j = st.j + 1]
          ELSE IF ~env.write
          THEN [st EXCEPT !.h = r.h, !.err = -1, !.stop = TRUE]
          ELSE [st EXCEPT !.h = r.h, !.err = st.j,
                          !.wrote = st.wrote \o st.buf,
                          !.buf = <<r.c>>, !.j = 1]
          : r \in {hqxGetByte(st.h, data)}})

\* the passes i = lo .. hi of the loop, the first half of the range and
\* then the second
RECURSIVE hqxForkLoop(_, _, _, _, _)
hqxForkLoop(st, data, env, lo, hi) ==
    IF st.stop \/ lo > hi THEN st
    ELSE IF lo = hi THEN hqxForkStep(st, data, env)
    ELSE Only({IF first.stop THEN first
               ELSE hqxForkLoop(first, data, env, ((lo + hi) \div 2) + 1, hi)
               : first \in {hqxForkLoop(st, data, env, lo,
                                        (lo + hi) \div 2)}})

\* the bytes the output file holds when hqxExtractFork has left its loop in
\* st: what is left in outBuf is written when no error is pending
hqxForkWritten(st, env) ==
    IF st.err >= 0 /\ st.j > 0 /\ st.j < gMaxBuf /\ env.write
    THEN st.wrote \o st.buf
    ELSE st.wrote

\* hqxExtractFork(hqxFile, prefix) after its loop: the CRC of the fork is
\* read outside the accumulator and compared
hqxForkCRC(st, data, isRsrc, env) ==
    Only({IF SShort(r.v) = gHqxErr
          THEN HqxForkResult(gHqxErr,
                   IF isRsrc THEN [r.h EXCEPT !.rsrcCRC = r.v]
                   ELSE [r.h EXCEPT !.dataCRC = r.v],
                   hqxForkWritten(st, env), "crc-read")
          ELSE IF hqxVerifyCRC(r.h.crc, r.v) = 0
          THEN HqxForkResult(gHqxErr,
                   IF isRsrc THEN [r.h EXCEPT !.rsrcCRC = r.v]
                   ELSE [r.h EXCEPT !.dataCRC = r.v],
                   hqxForkWritten(st, env), "crc")
          ELSE HqxForkResult(gHqxOkay,
                   IF isRsrc THEN [r.h EXCEPT !.rsrcCRC = r.v]
                   ELSE [r.h EXCEPT !.dataCRC = r.v,
                                    !.haveExtractedDataFork = 1],
                   hqxForkWritten(st, env), "ok")
          : r \in {hqxGet2BytesWithOptions(st.h, data,
                                           OPT_EXCLUDE_FROM_CRC)}})

\* hqxExtractFork(hqxFile, prefix) for a fork of forkLen bytes, forkLen
\* being the length the header gives
hqxExtractForkOf(h, data, isRsrc, env, forkLen) ==
    IF WNeg(forkLen)
    THEN HqxForkResult(gHqxErr, h, <<>>, "length")
    ELSE IF forkLen = WZero
    THEN hqxSkipEmptyFork(h, data, isRsrc)
    ELSE IF env.open = "fail"
    THEN HqxForkResult(gHqxErr, h, <<>>, "open")
    ELSE IF ~(isRsrc /\ env.open = "alt") /\ ~env.chmod
    THEN HqxForkResult(gHqxErr, h, <<>>, "chmod")
    ELSE Only({hqxForkCRC(st, data, isRsrc, env)
               : st \in {hqxForkLoop([h |-> [h EXCEPT !.crc = 0], j |-> 0,
                                      buf |-> <<>>, err |-> 0,
                                      wrote |-> <<>>, stop |-> FALSE],
                                     data, env, 1, WVal(forkLen))}})

\* hqxExtractFork(hqxFile, prefix): isRsrc is prefix != NULL; env tells how
\* the output file was opened ("alt" by the alternate name of a resource
\* fork, "plain" by the output file name, "fail" not at all) and whether
\* fchmod(2) and write(2) succeed
hqxExtractFork(h, data, isRsrc, env) ==
    IF h.fd < 0 \/ h.hqxHeader.name[1] = 0
    THEN HqxForkResult(gHqxErr, h, <<>>, "handle")
    ELSE IF isRsrc /\ h.haveExtractedDataFork # 1
    THEN HqxForkResult(gHqxErr, h, <<>>, "order")
    ELSE hqxExtractForkOf(h, data, isRsrc, env,
                          IF isRsrc THEN h.hqxHeader.rsrcLen
                          ELSE h.hqxHeader.dataLen)

\* hqxExtractForks(hqxFile) after the data fork, d being what its
\* hqxExtractFork call returned
hqxExtractRsrcAfter(d, data, envRsrc) ==
    Only({[rc |-> IF r.rc # gHqxOkay THEN gHqxErr ELSE gHqxOkay,
           h |-> r.h, calls |-> <<d, r>>]
          : r \in {hqxExtractFork(d.h, data, TRUE, envRsrc)}})

\* hqxExtractForks(hqxFile): the results of the hqxExtractFork calls made
hqxExtractForks(h, data, envData, envRsrc) ==
    IF h.fd < 0 \/ h.hqxHeader.name[1] = 0
    THEN [rc |-> gHqxErr, h |-> h, calls |-> <<>>]
    ELSE Only({IF d.rc # gHqxOkay
               THEN [rc |-> gHqxErr, h |-> d.h, calls |-> <<d>>]
               ELSE hqxExtractRsrcAfter(d, data, envRsrc)
               : d \in {hqxExtractFork(h, data, FALSE, envData)}})

(***************************************************************************)
(* BinHex inputs: what a conforming encoder writes                         *)
(***************************************************************************)

\* the accumulator after bytes[lo .. hi], computed over the first half of
\* the range and then over the second
RECURSIVE EncCRCRange(_, _, _, _)
EncCRCRange(bytes, lo, hi, crc) ==
    IF lo > hi THEN crc
    ELSE IF lo = hi THEN hqxCRCLoop(crc, bytes[lo], 0)
    ELSE Only({EncCRCRange(bytes, ((lo + hi) \div 2) + 1, hi, first)
               : first \in {EncCRCRange(bytes, lo, (lo + hi) \div 2, crc)}})

\* the CRC of a sequence of bytes, two zero bytes fed after them
EncCRC(bytes, crc) ==
    hqxCRCLoop(hqxCRCLoop(EncCRCRange(bytes, 1, Len(bytes), crc), 0, 0), 0, 0)

\* run-length layer of the encoder on bytes[lo .. hi]: a literal 0x90 is
\* written 0x90 0x00
RECURSIVE EncRLRange(_, _, _)
EncRLRange(bytes, lo, hi) ==
    IF lo > hi THEN <<>>
    ELSE IF lo = hi
    THEN IF bytes[lo] = RUNCHAR THEN <<RUNCHAR, 0>> ELSE <<bytes[lo]>>
    ELSE EncRLRange(bytes, lo, (lo + hi) \div 2)
             \o EncRLRange(bytes, ((lo + hi) \div 2) + 1, hi)

EncRL(bytes) == EncRLRange(bytes, 1, Len(bytes))

\* 8-to-6 bit layer of the encoder: three bytes give four characters, a
\* last group of one or two bytes gives two or three
EncSix(bytes) ==
    LET n == Len(bytes)
        byte(i) == IF i <= n THEN bytes[i] ELSE 0
        six(g, k) ==
            LET b1 == byte(3 * g + 1)
                b2 == byte(3 * g + 2)
                b3 == byte(3 * g + 3)
            IN  CASE k = 0 -> b1 \div 4
                  [] k = 1 -> (b1 % 4) * 16 + (b2 \div 16)
                  [] k = 2 -> (b2 % 16) * 4 + (b3 \div 64)
                  [] k = 3 -> b3 % 64
        count == 4 * (n \div 3) + (IF n % 3 = 0 THEN 0 ELSE (n % 3) + 1)
    IN  [j \in 1..count |->
            gHqxValidChars[six((j - 1) \div 4, (j - 1) % 4) + 1]]

\* the armor of a byte stream given as it stands after run-length encoding
Armor(packed) == <<10, 58>> \o EncSix(packed) \o <<58, 10>>

\* all sequences over S of length 0..n
SeqsUpTo(S, n) == UNION {[1..k -> S] : k \in 0..n}

\* the value of the byte the build places in front of the lookup table
HqxOobValues == {-1, 0, 63}

(***************************************************************************)
(* SpecRL: the run-length layer read byte by byte                          *)
(***************************************************************************)

\* the longest unpacked byte stream of SpecRL
MaxRLLen == 4

\* the bytes of the unpacked streams: a letter, the run marker, the counts
RLBytes == {65, RUNCHAR, 0, 2, 3}

InitRL ==
    /\ \E packed \in SeqsUpTo(RLBytes, MaxRLLen) :
          /\ hqxData = Armor(packed)
          /\ hqxSrc = [kind |-> "rl", packed |-> packed]
    /\ hqx = hqxInitFileHandle(-1)
    /\ hqxLog = <<>>
    /\ SitIdle
    /\ MrIdle
    /\ QlIdle

\* the caller of the layer has found the armor (hqxGetHeader, first step)
RLFind ==
    /\ hqxLog = <<>>
    /\ \E r \in {hqxFindHeader(hqx, hqxData)} :
          /\ hqx' = r.h
          /\ hqxLog' = <<[op |-> "find", c |-> r.rc]>>
    /\ UNCHANGED <<hqxData, hqxSrc, sitData, sitFile, sitEntry, sitLog, mr, ql>>

\* one hqxGetByteWithRL call; at most two calls are made at the end of input
RLStep ==
    /\ hqxLog # <<>>
    /\ hqxLog[1].c = gHqxOkay
    /\ ~(Len(hqxLog) >= 3 /\ hqxLog[Len(hqxLog)].c = EOF
                          /\ hqxLog[Len(hqxLog) - 1].c = EOF)
    /\ \E r \in {hqxGetByteWithRL(hqx, hqxData)} :
          /\ hqx' = r.h
          /\ hqxLog' = Append(hqxLog, [op |-> "rl", c |-> r.c])
    /\ UNCHANGED <<hqxData, hqxSrc, sitData, sitFile, sitEntry, sitLog, mr, ql>>

NextRL == RLFind \/ RLStep

SpecRL == InitRL /\ [][NextRL]_vars

\* the bytes the hqxGetByteWithRL calls have returned so far
RLOut ==
    LET calls == SelectSeq(hqxLog, LAMBDA r : r.op = "rl" /\ r.c # EOF)
    IN  [i \in 1..Len(calls) |-> calls[i].c]

\* every 0x90 of the unpacked stream is followed by a count that is 0 or at
\* least 2, and no run comes before the first byte
RECURSIVE RLWellFormed(_, _)
RLWellFormed(raw, first) ==
    IF raw = <<>> THEN TRUE
    ELSE IF Head(raw) # RUNCHAR THEN RLWellFormed(Tail(raw), FALSE)
    ELSE /\ Len(raw) >= 2
         /\ raw[2] # 1
         /\ ~(first /\ raw[2] # 0)
         /\ RLWellFormed(Tail(Tail(raw)), FALSE)

\* the reference expansion: a byte other than 0x90 as is, (0x90, 0) as one
\* 0x90, (0x90, r) as r - 1 further copies of the last byte of the output
RECURSIVE RLExpand(_, _)
RLExpand(raw, out) ==
    IF raw = <<>> THEN out
    ELSE IF Head(raw) # RUNCHAR
    THEN RLExpand(Tail(raw), Append(out, Head(raw)))
    ELSE IF raw[2] = 0
    THEN RLExpand(Tail(Tail(raw)), Append(out, RUNCHAR))
    ELSE RLExpand(Tail(Tail(raw)),
                  out \o [i \in 1..(raw[2] - 1) |-> out[Len(out)]])

\* C2: on every unpacked stream in which each 0x90 is followed by a count
\* r = 0 or r >= 2, the bytes returned by the successive hqxGetByteWithRL
\* calls are the reference expansion of the unpacked bytes read so far, less
\* the copies of the current run that are still to be returned.
C2_RunLength ==
    RLWellFormed(hqx.raw, TRUE) =>
        LET ref == RLExpand(hqx.raw, <<>>)
            pending == Max(hqx.repeat, 0)
        IN  /\ pending <= Len(ref)
            /\ RLOut = SubSeq(ref, 1, Len(ref) - pending)

\* C2 witness: a literal 0x90 and a run of three of it have been decoded
C2_Witness ==
    /\ hqx.raw = <<RUNCHAR, 0, RUNCHAR, 3>>
    /\ hqx.repeat = 0
    /\ RLOut = <<RUNCHAR, RUNCHAR, RUNCHAR>>

(***************************************************************************)
(* SpecFind: hqxFindHeader and the hqxGet6Bits calls that follow it        *)
(***************************************************************************)

\* the longest input of SpecFind
MaxFindLen == 4

\* the bytes of the inputs: '\n', '\r', ':', 'a' (of the alphabet), '.' (in
\* the range of the lookup table, not of the alphabet), 's' (past the
\* table), and the zero byte (in front of the table)
FindBytes == {10, 13, 58, 97, 46, 115, 0}

InitFind ==
    /\ hqxData \in SeqsUpTo(FindBytes, MaxFindLen)
    /\ hqxSrc = [kind |-> "find"]
    /\ \E oob \in HqxOobValues : hqx = hqxInitFileHandle(oob)
    /\ hqxLog = <<>>
    /\ SitIdle
    /\ MrIdle
    /\ QlIdle

\* the offset of the next char hqxGet6Bits takes
hqxNextOffset(h) ==
    IF h.readBufIndex = -1 \/ h.readBufSize = -1
       \/ h.readBufIndex >= h.readBufSize
    THEN h.fpos
    ELSE h.readBufBase + h.readBufIndex

FindHeader ==
    /\ hqxLog = <<>>
    /\ \E r \in {hqxFindHeader(hqx, hqxData)} :
       /\ hqx' = r.h
       /\ hqxLog' = <<[op |-> "find", c |-> r.rc, at |-> r.h.fpos,
                       atEOF |-> 0]>>
    /\ UNCHANGED <<hqxData, hqxSrc, sitData, sitFile, sitEntry, sitLog, mr, ql>>

\* one hqxGet6Bits call on the handle hqxFindHeader has positioned
Get6Bits ==
    /\ hqxLog # <<>>
    /\ hqxLog[1].c = gHqxOkay
    /\ hqx.readBufAtEOF = 0
    /\ \E r \in {hqxGet6Bits(hqx, hqxData)} :
       /\ hqx' = r.h
       /\ hqxLog' = Append(hqxLog,
              [op |-> "get6", c |-> r.c, at |-> hqxNextOffset(hqx),
               atEOF |-> r.h.readBufAtEOF])
    /\ UNCHANGED <<hqxData, hqxSrc, sitData, sitFile, sitEntry, sitLog, mr, ql>>

NextFind == FindHeader \/ Get6Bits

SpecFind == InitFind /\ [][NextFind]_vars

\* c is one of the 64 characters of the BinHex alphabet
IsAlphabetChar(c) == \E i \in 1..Len(gHqxValidChars) : gHqxValidChars[i] = c

\* the 6-bit value of the alphabet character c
AlphabetValue(c) ==
    (CHOOSE i \in 1..Len(gHqxValidChars) : gHqxValidChars[i] = c) - 1

\* the input has a line whose first character is ':' and whose second
\* character is of the alphabet
HasHeaderLine(data) ==
    \E i \in 1..(Len(data) - 1) :
        /\ data[i] = 58
        /\ (i = 1 \/ data[i - 1] = 10 \/ data[i - 1] = 13)
        /\ IsAlphabetChar(data[i + 1])

\* C5: hqxFindHeader returns gHqxOkay exactly when the input has a line (the
\* first line, or one that follows a '\n' or '\r') whose first character is
\* ':' and whose second character is one of the 64 alphabet characters;
\* otherwise it reads to the end of the input and returns gHqxErr.
C5_FindHeader ==
    hqxLog # <<>> /\ hqxLog[1].op = "find" =>
        /\ (hqxLog[1].c = gHqxOkay) <=> HasHeaderLine(hqxData)
        /\ hqxLog[1].c # gHqxOkay =>
              hqxLog[1].c = gHqxErr /\ hqxLog[1].at = Len(hqxData)

\* the offset of the first character at or after pos that is no line break
RECURSIVE SkipBreaks(_, _)
SkipBreaks(data, pos) ==
    IF pos < Len(data) /\ (data[pos + 1] = 10 \/ data[pos + 1] = 13)
    THEN SkipBreaks(data, pos + 1)
    ELSE pos

\* C6: when hqxFindHeader succeeds the file position rests on the alphabet
\* character that ended the search, and the first 6-bit value decoded after
\* it is the value of that character.
C6_Rewind ==
    hqxLog # <<>> /\ hqxLog[1].op = "find" /\ hqxLog[1].c = gHqxOkay =>
        /\ hqxLog[1].at < Len(hqxData)
        /\ IsAlphabetChar(hqxData[hqxLog[1].at + 1])
        /\ Len(hqxLog) >= 2 =>
              /\ hqxLog[2].at = hqxLog[1].at
              /\ hqxLog[2].c = AlphabetValue(hqxData[hqxLog[1].at + 1])

\* C8: in 6-bit decoding a character that is not of the alphabet, other
\* than a line break (skipped) and ':' (end of data), makes hqxGet6Bits
\* report failure and mark the stream as ended, so that no later character
\* is decoded.
C8_BadChar ==
    \A k \in 1..Len(hqxLog) :
        LET e == hqxLog[k]
            p == SkipBreaks(hqxData, e.at)
        IN  (/\ e.op = "get6"
             /\ p < Len(hqxData)
             /\ ~IsAlphabetChar(hqxData[p + 1])
             /\ hqxData[p + 1] # 58)
            => e.c = EOF /\ e.atEOF = 1 /\ k = Len(hqxLog)

(***************************************************************************)
(* SpecHdr: hqxGetHeader on encoded headers and on headers with one bit    *)
(* flipped                                                                 *)
(***************************************************************************)

\* the longest of the short names
MaxShortName == 2

\* the bytes of the short names: 'a' and the run marker
NameBytes == {97, RUNCHAR}

\* the names: the short ones, one that needs transliteration, one made of
\* '/', ':', a backslash and a control character, and names of 62 and 63
\* bytes
HdrNames ==
    SeqsUpTo(NameBytes, MaxShortName)
        \cup {<<142, 98>>, <<47, 58, 92, 7>>,
              Fill(HQXFNAMEMAX - 2, 97), Fill(HQXFNAMEMAX - 1, 97)}

HdrFlags == {0, 16384, 65535}

\* fork lengths as wide values: 0, 100, 2^31 - 1, 2^31, 2^32 - 1
HdrDataLens ==
    {<<0, 0>>, <<0, 100>>, <<32767, 65535>>, <<32768, 0>>, <<65535, 65535>>}

\* 6835 makes the CRC of the header named "a" with type TEXT, creator ttxt,
\* flags 0 and an empty data fork 0xFFFF
HdrRsrcLens == {<<0, 0>>, <<0, 2>>, <<0, 6835>>, <<32768, 0>>}

HdrFields ==
    [name : HdrNames, type : {<<84, 69, 88, 84>>},
     creator : {<<116, 116, 120, 116>>}, flags : HdrFlags,
     dataLen : HdrDataLens, rsrcLen : HdrRsrcLens]

\* the header bytes in front of the CRC field
HdrBody(f) ==
    <<Len(f.name)>> \o f.name \o <<0>> \o f.type \o f.creator
        \o BE2(f.flags) \o BE4(f.dataLen) \o BE4(f.rsrcLen)

\* the header a conforming encoder writes for f
HdrBytes(f) == HdrBody(f) \o BE2(EncCRC(HdrBody(f), 0))

\* a header named "ab" whose resource fork length is chosen so that its low
\* 16 bits are the CRC of the 20 bytes that come first when the name length
\* reads 0
HdrShifted ==
    LET f0 == [name |-> <<97, 98>>, type |-> <<84, 69, 88, 84>>,
               creator |-> <<116, 116, 120, 116>>, flags |-> 0,
               dataLen |-> <<0, 0>>, rsrcLen |-> <<0, 0>>]
        first == <<0>> \o SubSeq(HdrBody(f0), 2, 20)
    IN  [f0 EXCEPT !.rsrcLen = <<0, EncCRC(first, 0)>>]

\* the headers of which single bits are flipped
FlipBases ==
    {HdrShifted,
     [HdrShifted EXCEPT !.name = <<97>>, !.dataLen = <<0, 100>>,
                        !.rsrcLen = <<0, 2>>],
     [HdrShifted EXCEPT !.name = <<RUNCHAR, 98>>, !.flags = 16384,
                        !.rsrcLen = <<0, 0>>]}

\* bit number bit of bytes inverted: bit 0 is the least significant bit of
\* the first byte
FlipBit(bytes, bit) ==
    [bytes EXCEPT ![(bit \div 8) + 1] = BitXor(@, Pow2(bit % 8), 8)]

InitHdr ==
    /\ \/ \E f \in HdrFields :
             /\ hqxSrc = [kind |-> "header", f |-> f, bit |-> -1]
             /\ hqxData = Armor(EncRL(HdrBytes(f)))
       \/ \E f \in FlipBases :
             \E bit \in 0..(8 * Len(HdrBytes(f)) - 1) :
                /\ hqxSrc = [kind |-> "flip", f |-> f, bit |-> bit]
                /\ hqxData = Armor(EncRL(FlipBit(HdrBytes(f), bit)))
    /\ hqx = hqxInitFileHandle(-1)
    /\ hqxLog = <<>>
    /\ SitIdle
    /\ MrIdle
    /\ QlIdle

\* hqxGetHeader on the handle hqxInitFileHandle has opened
HdrGetHeader ==
    /\ hqxLog = <<>>
    /\ \E r \in {hqxGetHeader(hqx, hqxData)} :
       /\ hqx' = r.h
       /\ hqxLog' = <<[op |-> "header", c |-> r.rc]>>
    /\ UNCHANGED <<hqxData, hqxSrc, sitData, sitFile, sitEntry, sitLog, mr, ql>>

\* hqxReleaseFileHandle after the header has been read
HdrRelease ==
    /\ Len(hqxLog) = 1
    /\ \E r \in {hqxReleaseFileHandle(hqx)} :
       /\ hqx' = r.h
       /\ hqxLog' = Append(hqxLog, [op |-> "release", c |-> r.ret])
    /\ UNCHANGED <<hqxData, hqxSrc, sitData, sitFile, sitEntry, sitLog, mr, ql>>

NextHdr == HdrGetHeader \/ HdrRelease

SpecHdr == InitHdr /\ [][NextHdr]_vars

\* hqxGetHeader has been called on the input
HdrCalled == hqxLog # <<>> /\ hqxLog[1].op = "header"

\* a wide value is in 0 .. 2^31 - 1
WInt31(w) == w[1] >= 0 /\ w[1] <= 32767

\* C3: for every header of a conforming encoder (name length at most 62,
\* fork lengths in 0 .. 2^31 - 1, any flags value, the CRC of the preceding
\* bytes whatever it is) hqxGetHeader returns gHqxOkay and exposes the raw
\* name bytes, type, creator, flags and fork lengths as encoded.
C3_HeaderRoundTrip ==
    (/\ HdrCalled
     /\ hqxSrc.kind = "header"
     /\ Len(hqxSrc.f.name) <= 62
     /\ WInt31(hqxSrc.f.dataLen) /\ WInt31(hqxSrc.f.rsrcLen))
    => /\ hqxLog[1].c = gHqxOkay
       /\ SubSeq(hqx.hqxHeader.name, 1, Len(hqxSrc.f.name)) = hqxSrc.f.name
       /\ SubSeq(hqx.hqxHeader.type, 1, 4) = hqxSrc.f.type
       /\ SubSeq(hqx.hqxHeader.creator, 1, 4) = hqxSrc.f.creator
       /\ hqx.hqxHeader.flags = hqxSrc.f.flags
       /\ hqx.hqxHeader.dataLen = hqxSrc.f.dataLen
       /\ hqx.hqxHeader.rsrcLen = hqxSrc.f.rsrcLen

\* C4 as stated: flipping any single bit of the bytes of a valid header
\* makes hqxGetHeader return gHqxErr.
C4_AnyBitFlip ==
    HdrCalled /\ hqxSrc.kind = "flip" => hqxLog[1].c = gHqxErr

\* C4: flipping any single bit of the bytes of a valid header other than
\* the bits of the name-length byte makes hqxGetHeader return gHqxErr, and
\* hqxGetHeader returns gHqxOkay only when the accumulator equals the
\* stored header CRC.
C4_BitFlipPastLength ==
    HdrCalled =>
        /\ hqxSrc.kind = "flip" /\ hqxSrc.bit >= 8 => hqxLog[1].c = gHqxErr
        /\ hqxLog[1].c = gHqxOkay => hqx.crc = hqx.hqxHeader.headerCRC

\* C4 witness: a header with a bit of its name flipped was read up to its
\* CRC field and refused
C4_Witness ==
    /\ HdrCalled /\ Len(hqxLog) = 1
    /\ hqxSrc.kind = "flip" /\ hqxSrc.bit = 8
    /\ hqx.got = Len(HdrBytes(hqxSrc.f))
    /\ hqx.crc # hqx.hqxHeader.headerCRC
    /\ hqxLog[1].c = gHqxErr

\* C7: hqxGetHeader returns gHqxErr when the name length L has L + 1 >= 64
\* and when a fork-length field read as a signed 32-bit integer is negative;
\* when it returns gHqxOkay both fork lengths are in 0 .. 2^31 - 1.
C7_HeaderLimits ==
    HdrCalled =>
        /\ (/\ hqxSrc.kind = "header"
            /\ \/ Len(hqxSrc.f.name) + 1 >= 64
               \/ ~WInt31(hqxSrc.f.dataLen)
               \/ ~WInt31(hqxSrc.f.rsrcLen))
           => hqxLog[1].c = gHqxErr
        /\ hqxLog[1].c = gHqxOkay =>
              WInt31(hqx.hqxHeader.dataLen) /\ WInt31(hqx.hqxHeader.rsrcLen)

(***************************************************************************)
(* SpecFork: the forks of encoded files extracted through hqxExtractFork   *)
(* and hqxExtractForks                                                     *)
(***************************************************************************)

\* the most hqxExtractFork calls made on one handle
MaxForkCalls == 2

\* the bytes of a fork of n bytes, the run marker among them
ForkData(n) == [i \in 1..n |-> IF i % 7 = 0 THEN RUNCHAR ELSE 65 + (i % 5)]

\* headers of the files: forks of 0 and 2 bytes under a one-letter name, a
\* data fork of 100 bytes, and a file without a name
ForkFields ==
    [name : {<<97>>}, type : {<<84, 69, 88, 84>>},
     creator : {<<116, 116, 120, 116>>}, flags : {0},
     dataLen : {<<0, 0>>, <<0, 2>>}, rsrcLen : {<<0, 0>>, <<0, 2>>}]
        \cup [name : {<<97>>}, type : {<<84, 69, 88, 84>>},
              creator : {<<116, 116, 120, 116>>}, flags : {0},
              dataLen : {<<0, 100>>}, rsrcLen : {<<0, 0>>}]
        \cup [name : {<<>>}, type : {<<84, 69, 88, 84>>},
              creator : {<<116, 116, 120, 116>>}, flags : {0},
              dataLen : {<<0, 2>>}, rsrcLen : {<<0, 0>>}]

\* the CRC field an encoder writes after a fork, and one that differs from
\* it in its last bit
ForkCRC(fork, bad) ==
    IF bad THEN BitXor(EncCRC(fork, 0), 1, 16) ELSE EncCRC(fork, 0)

\* the decoded bytes of a file: header, data fork, resource fork, each
\* followed by its CRC field; bad names the fork whose CRC field is wrong
ForkFile(f, bad) ==
    HdrBytes(f)
        \o ForkData(WVal(f.dataLen))
        \o BE2(ForkCRC(ForkData(WVal(f.dataLen)), bad = "data"))
        \o ForkData(WVal(f.rsrcLen))
        \o BE2(ForkCRC(ForkData(WVal(f.rsrcLen)), bad = "rsrc"))

\* how the output file of one hqxExtractFork call fares
ForkEnvs ==
    {[open |-> "plain", chmod |-> TRUE, write |-> TRUE],
     [open |-> "alt", chmod |-> FALSE, write |-> TRUE],
     [open |-> "fail", chmod |-> TRUE, write |-> TRUE],
     [open |-> "plain", chmod |-> TRUE, write |-> FALSE]}

InitFork ==
    /\ \E f \in ForkFields : \E bad \in {"none", "data", "rsrc"} :
          /\ hqxSrc = [kind |-> "fork", f |-> f, bad |-> bad]
          /\ hqxData = Armor(EncRL(ForkFile(f, bad)))
    /\ hqx = hqxInitFileHandle(-1)
    /\ hqxLog = <<>>
    /\ SitIdle
    /\ MrIdle
    /\ QlIdle

\* the record of one call: the bytes delivered before and after it, the
\* flag haveExtractedDataFork before it, and the caller
ForkEntry(op, rc, why, pre, post, via) ==
    [op |-> op, c |-> rc, why |-> why, pre |-> pre.got, post |-> post.got,
     flag |-> pre.haveExtractedDataFork, via |-> via]

ForkGetHeader ==
    /\ hqxLog = <<>>
    /\ \E r \in {hqxGetHeader(hqx, hqxData)} :
       /\ hqx' = r.h
       /\ hqxLog' = <<ForkEntry("header", r.rc, "", hqx, r.h, "main")>>
    /\ UNCHANGED <<hqxData, hqxSrc, sitData, sitFile, sitEntry, sitLog, mr, ql>>

\* the header has been read, the handle is open and calls are left
ForkReady ==
    /\ hqxLog # <<>>
    /\ hqxLog[1].c = gHqxOkay
    /\ hqx.fp = "open"
    /\ Len(hqxLog) <= MaxForkCalls

\* hqxExtractFork(hqxFile, NULL)
ForkExtractData ==
    /\ ForkReady
    /\ \E env \in ForkEnvs :
          \E r \in {hqxExtractFork(hqx, hqxData, FALSE, env)} :
          /\ hqx' = r.h
          /\ hqxLog' = Append(hqxLog,
                 ForkEntry("data", r.rc, r.why, hqx, r.h, "direct"))
    /\ UNCHANGED <<hqxData, hqxSrc, sitData, sitFile, sitEntry, sitLog, mr, ql>>

\* hqxExtractFork(hqxFile, gRsrcForkPrefix)
ForkExtractRsrc ==
    /\ ForkReady
    /\ \E env \in ForkEnvs :
          \E r \in {hqxExtractFork(hqx, hqxData, TRUE, env)} :
          /\ hqx' = r.h
          /\ hqxLog' = Append(hqxLog,
                 ForkEntry("rsrc", r.rc, r.why, hqx, r.h, "direct"))
    /\ UNCHANGED <<hqxData, hqxSrc, sitData, sitFile, sitEntry, sitLog, mr, ql>>

\* hqxExtractForks(hqxFile): one record for each hqxExtractFork call it
\* makes, or one for itself when it makes none
ForkExtractForks ==
    /\ ForkReady
    /\ \E env \in ForkEnvs :
          \E r \in {hqxExtractForks(hqx, hqxData, env, env)} :
             /\ hqx' = r.h
             /\ hqxLog' =
                   hqxLog \o
                   [k \in 1..Max(1, Len(r.calls)) |->
                       IF r.calls = <<>>
                       THEN ForkEntry("forks", r.rc, "handle", hqx, r.h,
                                      "forks")
                       ELSE ForkEntry(IF k = 1 THEN "data" ELSE "rsrc",
                                      r.calls[k].rc, r.calls[k].why,
                                      IF k = 1 THEN hqx ELSE r.calls[1].h,
                                      r.calls[k].h, "forks")]
    /\ UNCHANGED <<hqxData, hqxSrc, sitData, sitFile, sitEntry, sitLog, mr, ql>>

\* hqxReleaseFileHandle(hqxFile)
ForkRelease ==
    /\ hqxLog # <<>>
    /\ hqx.fp = "open"
    /\ \E r \in {hqxReleaseFileHandle(hqx)} :
       /\ hqx' = r.h
       /\ hqxLog' = Append(hqxLog,
              ForkEntry("release", r.ret, "", hqx, r.h, "main"))
    /\ UNCHANGED <<hqxData, hqxSrc, sitData, sitFile, sitEntry, sitLog, mr, ql>>

NextFork ==
    \/ ForkGetHeader
    \/ ForkExtractData
    \/ ForkExtractRsrc
    \/ ForkExtractForks
    \/ ForkRelease

SpecFork == InitFork /\ [][NextFork]_vars

\* the bytes delivered when the fork op of the input begins
ForkStart(op) ==
    IF op = "data" THEN Len(HdrBytes(hqxSrc.f))
    ELSE Len(HdrBytes(hqxSrc.f)) + WVal(hqxSrc.f.dataLen) + 2

\* C9: when the declared length of a fork is 0, hqxExtractFork called where
\* the fork begins consumes exactly the 2-byte CRC field of the fork, and
\* it reports success only when that field is the CRC of the fork; so the
\* empty resource fork that follows a data fork of 100 bytes and its CRC
\* takes exactly two further bytes.
C9_EmptyForkCRC ==
    \A k \in 1..Len(hqxLog) :
        (/\ hqxLog[k].op \in {"data", "rsrc"}
         /\ hqxLog[k].why = "empty"
         /\ hqxLog[k].pre = ForkStart(hqxLog[k].op))
        => /\ hqxLog[k].post - hqxLog[k].pre = 2
           /\ hqxLog[k].c = gHqxOkay => hqxSrc.bad # hqxLog[k].op

\* a data-fork extraction has returned gHqxOkay before call k
DataForkDone(k) ==
    \E j \in 1..(k - 1) : hqxLog[j].op = "data" /\ hqxLog[j].c = gHqxOkay

\* C10: on a handle whose header names a file, hqxExtractFork refuses the
\* extraction of the resource fork on ordering grounds, returning gHqxErr
\* without consuming input, exactly when no extraction of the data fork has
\* yet returned gHqxOkay on the handle, the extraction of a data fork of
\* length 0 included.
C10_RsrcAfterData ==
    \A k \in 1..Len(hqxLog) :
        hqxLog[k].op = "rsrc" /\ hqxLog[k].why # "handle" =>
            /\ (hqxLog[k].why = "order") <=> ~DataForkDone(k)
            /\ hqxLog[k].why = "order" =>
                  /\ hqxLog[k].c = gHqxErr
                  /\ hqxLog[k].post = hqxLog[k].pre


(***************************************************************************)
(* SpecMR: macosroman2ascii on buffers of every kind, applied twice        *)
(***************************************************************************)

\* the longest input of SpecMR made of more than one byte
MaxMrLen == 3

\* the bytes of the longer inputs: the terminator, a control byte, a letter,
\* a byte of the fallback and one of the table
MrBytes == {0, 9, 65, 201, 210}

\* the inputs: every single byte, and the strings over MrBytes
MrInputs == {<<b>> : b \in Byte} \cup SeqsUpTo(MrBytes, MaxMrLen)

\* the output buffer before the call: one byte longer than the longest
\* input, holding bytes that no call stores
MrBuffer == Fill(MaxMrLen + 1, 170)

\* the calls: a buffer or the null pointer on each side (the null pointers
\* with the shortest inputs), an input length of at most the input, an
\* output length of at most the output buffer
MrCalls ==
    {[step |-> "init", in |-> in, inLen |-> n, out0 |-> out, outLen |-> m] :
        in \in MrInputs, n \in {-1, 0, 1, MaxMrLen - 1, MaxMrLen},
        out \in {MrBuffer}, m \in {-1, 0, 1, MaxMrLen, MaxMrLen + 1}}
    \cup
    {[step |-> "init", in |-> in, inLen |-> n, out0 |-> out, outLen |-> m] :
        in \in {NULL, <<65>>}, n \in {0, 1},
        out \in {NULL, MrBuffer}, m \in {0, 1}}

InitMR ==
    /\ mr \in {c \in MrCalls : c.in = NULL \/ c.inLen <= Len(c.in)}
    /\ SitIdle
    /\ HqxIdle
    /\ QlIdle

\* macosroman2ascii(in, inLen, out, outLen)
MrOnce ==
    /\ mr.step = "init"
    /\ \E r \in {macosroman2ascii(mr.in, mr.inLen, mr.out0, mr.outLen)} :
          mr' = [step |-> "once", in |-> mr.in, inLen |-> mr.inLen,
                 out0 |-> mr.out0, outLen |-> mr.outLen,
                 ret1 |-> r.ret, out1 |-> r.out]
    /\ UNCHANGED <<sitData, sitFile, sitEntry, sitLog,
                   hqxData, hqx, hqxLog, hqxSrc, ql>>

\* macosroman2ascii(out, outLen, out2, outLen): the output of the first call
\* as the input of a second one with a buffer like the first
MrTwice ==
    /\ mr.step = "once"
    /\ \E r \in {macosroman2ascii(mr.out1, mr.outLen, mr.out0, mr.outLen)} :
          mr' = [step |-> "twice", in |-> mr.in, inLen |-> mr.inLen,
                 out0 |-> mr.out0, outLen |-> mr.outLen,
                 ret1 |-> mr.ret1, out1 |-> mr.out1,
                 ret2 |-> r.ret, out2 |-> r.out]
    /\ UNCHANGED <<sitData, sitFile, sitEntry, sitLog,
                   hqxData, hqx, hqxLog, hqxSrc, ql>>

NextMR == MrOnce \/ MrTwice

SpecMR == InitMR /\ [][NextMR]_vars

\* the first call has been made
MrCalled == mr.step \in {"once", "twice"}

\* a pointer of the call is null or a length of it is not positive
MrRefused ==
    mr.in = NULL \/ mr.inLen <= 0 \/ mr.out0 = NULL \/ mr.outLen <= 0

\* position i (from 1) of the input is within both lengths and before the
\* first zero byte of the input
MrScanned(i) ==
    /\ i <= mr.inLen /\ i <= mr.outLen
    /\ \A j \in 1..i : mr.in[j] # 0

\* C16: macosroman2ascii returns -1 and leaves the output as it was exactly
\* when a pointer is null or a length is <= 0; otherwise it returns 0
\* whatever the content, and for an input length N and an output capacity M
\* out[i] is, for each i < min(N, M) before the first zero input byte, in[i]
\* when 0x20 <= in[i] <= 0x7E, '_' when in[i] < 0x20 and the value of the
\* table when in[i] > 0x7E, and every other position of out[0..M-1] is zero.
C16_Transliterate ==
    MrCalled =>
        /\ mr.ret1 = -1 <=> MrRefused
        /\ MrRefused => mr.out1 = mr.out0
        /\ ~MrRefused =>
              /\ mr.ret1 = 0
              /\ \A i \in 1..mr.outLen :
                    mr.out1[i] =
                        IF ~MrScanned(i) THEN 0
                        ELSE IF mr.in[i] < 32 THEN 95
                        ELSE IF mr.in[i] > 126 THEN MacRomanHigh(mr.in[i])
                        ELSE mr.in[i]

\* C16 witness: a control byte, a letter and a zero byte in front of a
\* letter, into an output of four bytes
C16_Witness ==
    /\ MrCalled /\ ~MrRefused
    /\ mr.in = <<9, 65, 0>> /\ mr.inLen = 3 /\ mr.outLen = 4
    /\ SubSeq(mr.out1, 1, 4) = <<95, 65, 0, 0>>

\* the byte stored for the scanned input byte c is a, wherever c stands
MrMaps(c, a) ==
    (MrCalled /\ ~MrRefused) =>
        \A i \in 1..Len(mr.in) :
            (MrScanned(i) /\ mr.in[i] = c) => mr.out1[i] = a

\* C17 as stated: en dash 0xD0 and em dash 0xD1 map to '-', the ellipsis
\* 0xC9 to '.', the curly double quotes 0xD2 and 0xD3 to '"', the curly
\* single quotes 0xD4 and 0xD5 to the apostrophe, bullet 0xA5 and degree
\* 0xA1 to '_'.
C17_TableAsStated ==
    /\ MrMaps(208, 45) /\ MrMaps(209, 45)
    /\ MrMaps(201, 46)
    /\ MrMaps(210, 34) /\ MrMaps(211, 34)
    /\ MrMaps(212, 39) /\ MrMaps(213, 39)
    /\ MrMaps(165, 95) /\ MrMaps(161, 95)

\* C17: en dash 0xD0 and em dash 0xD1 map to '-', the curly double quotes
\* 0xD2 and 0xD3 to '"', the curly single quotes 0xD4 and 0xD5 to the
\* apostrophe, and bullet 0xA5, degree 0xA1 and the ellipsis 0xC9 to the
\* fallback '_'; the bytes above '~' that map to '.' are 0xE1 and 0xFA.
C17_Table ==
    /\ MrMaps(208, 45) /\ MrMaps(209, 45)
    /\ MrMaps(210, 34) /\ MrMaps(211, 34)
    /\ MrMaps(212, 39) /\ MrMaps(213, 39)
    /\ MrMaps(165, 95) /\ MrMaps(161, 95) /\ MrMaps(201, 95)
    /\ MrMaps(225, 46) /\ MrMaps(250, 46)
    /\ (MrCalled /\ ~MrRefused) =>
          \A i \in 1..Len(mr.in) :
              (MrScanned(i) /\ mr.out1[i] = 46) => mr.in[i] \in {46, 225, 250}

\* C17 witness: the ellipsis between two quotes was transliterated
C17_Witness ==
    /\ MrCalled /\ ~MrRefused
    /\ mr.in = <<210, 201, 210>> /\ mr.inLen = 3 /\ mr.outLen = 3
    /\ SubSeq(mr.out1, 1, 3) = <<34, 95, 34>>

\* C18: transliteration is idempotent: for every input byte string and equal
\* buffer lengths, transliterating the output of a call leaves what the
\* call left, and returns what the call returned.
C18_Idempotent ==
    (mr.step = "twice" /\ mr.in # NULL /\ mr.inLen = mr.outLen) =>
        /\ mr.out2 = mr.out1
        /\ mr.ret2 = mr.ret1

\* C18 witness: a byte of the table was transliterated, and its
\* transliteration again
C18_Witness ==
    /\ mr.step = "twice" /\ mr.inLen = mr.outLen
    /\ mr.in = <<128>> /\ mr.inLen = 1
    /\ mr.ret1 = 0 /\ mr.ret2 = 0
    /\ mr.out1[1] = 65 /\ mr.out2[1] = 65

(***************************************************************************)
(* SpecQL: the callers of the decoders, step by step                       *)
(*   GeneratePreviewForHQX, GeneratePreviewForSIT, GeneratePreviewForURL   *)
(*   and the main of binhex.c                                              *)
(***************************************************************************)

noErr == 0

zipQLFailed == -3104

\* the most entries of an archive read through libarchive
MaxUrlEntries == 2

\* what archive_read_next_header delivers for an entry: its result, whether
\* archive_entry_filetype is AE_IFDIR, and archive_entry_size
UrlEntries ==
    [r : {"ARCHIVE_OK"}, dir : BOOLEAN, size : {<<0, 5>>, <<1, 7>>}]
        \cup {[r |-> "ARCHIVE_WARN", dir |-> FALSE, size |-> <<0, 5>>],
              [r |-> "ARCHIVE_FATAL", dir |-> FALSE, size |-> <<0, 0>>]}

UrlArchives == SeqsUpTo(UrlEntries, MaxUrlEntries)

\* the entries of the StuffIt archives of SpecQL: two files, a folder start
\* and a folder end
QlSitDescs ==
    {d \in SitEntryDescs :
        /\ d.rclen = 0
        /\ d.dclen \in {<<0, 50>>, <<0, 120>>, <<0, 0>>}}

QlSitArchives ==
    {SitArchive(ds, 0) :
        ds \in UNION {[1..n -> QlSitDescs] : n \in 0..MaxSitEntries}}
    \cup {<<83, 73, 84>>}

\* the BinHex files of SpecQL: files with good forks, with a bad data fork
\* CRC, and a file without a header
QlHqxFiles ==
    {Armor(EncRL(ForkFile(f, bad))) : f \in ForkFields, bad \in {"none", "data"}}
        \cup {<<>>}

\* the locals of a caller on entry
QlStart(fn) ==
    [fn |-> fn, pc |-> "start", from |-> "", ret |-> 0, dontExtract |-> 0,
     utiGZ |-> FALSE, isGZFile |-> FALSE, gzSize |-> WZero,
     archive |-> <<>>, next |-> 1, archiveOpen |-> FALSE,
     archiveFreed |-> FALSE, callsOnFreed |-> <<>>,
     zipErr |-> 0, totalSize |-> WZero, fileCompressedSize |-> WZero,
     totalEntries |-> 0, fileCount |-> 0, rows |-> <<>>]

InitQL ==
    /\ MrIdle
    /\ \/ /\ hqxData \in QlHqxFiles
          /\ hqx = [fd |-> -1]
          /\ hqxLog = <<>>
          /\ hqxSrc = [kind |-> "none"]
          /\ SitIdle
          /\ \/ ql = QlStart("HQX")
             \/ \E n \in {0, 1} :
                   ql = [QlStart("hqxMain") EXCEPT !.dontExtract = n]
       \/ /\ sitData \in QlSitArchives
          /\ sitFile = SitHandleNone
          /\ sitEntry = SitEntryNone
          /\ sitLog = <<>>
          /\ HqxIdle
          /\ ql = QlStart("SIT")
       \/ /\ SitIdle
          /\ HqxIdle
          /\ \E a \in UrlArchives, gz \in BOOLEAN :
                ql = [QlStart("URL") EXCEPT !.archive = a, !.utiGZ = gz,
                                            !.gzSize = <<0, 9>>]

\* return ret from the caller; from: the step that holds the return
QlReturn(q, ret) == [q EXCEPT !.pc = "returned", !.from = q.pc, !.ret = ret]

\* GeneratePreviewForHQX up to the second cancellation check; c1, c2: the
\* host has cancelled the preview at the first, second check
HqxPreviewOpen ==
    /\ ql.fn = "HQX" /\ ql.pc = "start"
    /\ \E c1 \in BOOLEAN, canOpen \in BOOLEAN, c2 \in BOOLEAN :
          IF c1
          THEN ql' = QlReturn(ql, noErr) /\ hqx' = hqx
          ELSE IF ~canOpen
          THEN ql' = QlReturn(ql, zipQLFailed) /\ hqx' = hqx
          ELSE IF c2
          THEN /\ hqx' = hqxReleaseFileHandle(hqxInitFileHandle(-1)).h
               /\ ql' = QlReturn(ql, noErr)
          ELSE /\ hqx' = hqxInitFileHandle(-1)
               /\ ql' = [ql EXCEPT !.pc = "opened"]
    /\ UNCHANGED <<hqxData, hqxLog, hqxSrc, sitData, sitFile, sitEntry,
                   sitLog, mr>>

\* GeneratePreviewForHQX: hqxGetHeader and the cancellation check after it
HqxPreviewHeader ==
    /\ ql.fn = "HQX" /\ ql.pc = "opened"
    /\ \E c3 \in BOOLEAN :
          \E r \in {hqxGetHeader(hqx, hqxData)} :
             IF r.rc # gHqxOkay
             THEN /\ hqx' = hqxReleaseFileHandle(r.h).h
                  /\ ql' = QlReturn(ql, zipQLFailed)
             ELSE IF c3
             THEN /\ hqx' = hqxReleaseFileHandle(r.h).h
                  /\ ql' = QlReturn(ql, noErr)
             ELSE /\ hqx' = r.h
                  /\ ql' = [ql EXCEPT !.pc = "header"]
    /\ UNCHANGED <<hqxData, hqxLog, hqxSrc, sitData, sitFile, sitEntry,
                   sitLog, mr>>

\* GeneratePreviewForHQX: the row of the file, the release and the return
HqxPreviewFinish ==
    /\ ql.fn = "HQX" /\ ql.pc = "header"
    /\ hqx' = hqxReleaseFileHandle(hqx).h
    /\ ql' = QlReturn([ql EXCEPT !.totalSize =
                          WAdd(hqx.hqxHeader.dataLen, hqx.hqxHeader.rsrcLen)],
                      noErr)
    /\ UNCHANGED <<hqxData, hqxLog, hqxSrc, sitData, sitFile, sitEntry,
                   sitLog, mr>>

\* main of binhex.c: hqxInitFileHandle
HqxMainOpen ==
    /\ ql.fn = "hqxMain" /\ ql.pc = "start"
    /\ \E canOpen \in BOOLEAN :
          IF ~canOpen
          THEN ql' = QlReturn(ql, 1) /\ hqx' = hqx
          ELSE /\ hqx' = hqxInitFileHandle(-1)
               /\ ql' = [ql EXCEPT !.pc = "opened"]
    /\ UNCHANGED <<hqxData, hqxLog, hqxSrc, sitData, sitFile, sitEntry,
                   sitLog, mr>>

\* main of binhex.c: hqxGetHeader, the summary line and the return of -n
HqxMainHeader ==
    /\ ql.fn = "hqxMain" /\ ql.pc = "opened"
    /\ \E r \in {hqxGetHeader(hqx, hqxData)} :
          IF r.rc # gHqxOkay
          THEN /\ hqx' = hqxReleaseFileHandle(r.h).h
               /\ ql' = QlReturn(ql, 1)
          ELSE IF ql.dontExtract = 1
          THEN /\ hqx' = r.h
               /\ ql' = QlReturn(ql, 0)
          ELSE /\ hqx' = r.h
               /\ ql' = [ql EXCEPT !.pc = "header"]
    /\ UNCHANGED <<hqxData, hqxLog, hqxSrc, sitData, sitFile, sitEntry,
                   sitLog, mr>>

\* main of binhex.c: hqxExtractForks, the release and the return
HqxMainExtract ==
    /\ ql.fn = "hqxMain" /\ ql.pc = "header"
    /\ \E env \in ForkEnvs :
          \E r \in {hqxExtractForks(hqx, hqxData, env, env)} :
             /\ hqx' = hqxReleaseFileHandle(r.h).h
             /\ ql' = QlReturn(ql, IF r.rc # gHqxOkay THEN 1 ELSE 0)
    /\ UNCHANGED <<hqxData, hqxLog, hqxSrc, sitData, sitFile, sitEntry,
                   sitLog, mr>>

\* GeneratePreviewForSIT up to the second cancellation check
SitPreviewOpen ==
    /\ ql.fn = "SIT" /\ ql.pc = "start"
    /\ \E c1 \in BOOLEAN, canOpen \in BOOLEAN, c2 \in BOOLEAN :
          \E r \in {sitInitFileHandle(sitData, canOpen)} :
             IF c1
             THEN ql' = QlReturn(ql, noErr) /\ sitFile' = sitFile
             ELSE IF r.ret # gHqxOkay
             THEN ql' = QlReturn(ql, zipQLFailed) /\ sitFile' = r.sf
             ELSE IF c2
             THEN /\ sitFile' = sitReleaseFileHandle(r.sf).sf
                  /\ ql' = QlReturn(ql, noErr)
             ELSE /\ sitFile' = r.sf
                  /\ ql' = [ql EXCEPT !.pc = "loop"]
    /\ UNCHANGED <<sitData, sitEntry, sitLog, hqxData, hqx, hqxLog, hqxSrc,
                   mr>>

\* the locals of GeneratePreviewForSIT after the body of its loop has run on
\* the entry e: nothing for a folder end, a row for a folder start, a row
\* and the sizes for a file
SitPreviewRow(q, e) ==
    IF sitIsEntryFolder(e) = SitEntryFolderEnd
    THEN [q EXCEPT !.rows = Append(@, [folder |-> TRUE,
                                       size |-> sitEntryGetUnCompressedSize(e)])]
    ELSE IF sitIsEntryFolder(e) = SitEntryFolderStart
    THEN [q EXCEPT !.totalEntries = @ + 1,
                   !.rows = Append(@, [folder |-> TRUE,
                                       size |-> sitEntryGetUnCompressedSize(e)])]
    ELSE [q EXCEPT !.totalEntries = @ + 1,
                   !.totalSize = WAdd(@, sitEntryGetUnCompressedSize(e)),
                   !.fileCompressedSize = sitEntryGetCompressedSize(e),
                   !.rows = Append(@, [folder |-> FALSE,
                                       size |-> sitEntryGetUnCompressedSize(e)])]

\* GeneratePreviewForSIT: one turn of the loop
SitPreviewEntry ==
    /\ ql.fn = "SIT" /\ ql.pc = "loop"
    /\ \E readErr \in BOOLEAN, cancel \in BOOLEAN :
          \E r \in {sitGetNextEntry(sitFile, sitEntry, sitData, readErr)} :
             /\ sitFile' = r.sf
             /\ sitEntry' = r.entry
             /\ ql' = IF r.ret # gSitOkay \/ cancel
                      THEN [ql EXCEPT !.zipErr = r.ret, !.pc = "finish"]
                      ELSE SitPreviewRow([ql EXCEPT !.zipErr = r.ret], r.entry)
    /\ UNCHANGED <<sitData, sitLog, hqxData, hqx, hqxLog, hqxSrc, mr>>

\* GeneratePreviewForSIT: after the loop, the release, the summary row and
\* the return
SitPreviewFinish ==
    /\ ql.fn = "SIT" /\ ql.pc = "finish"
    /\ sitFile' = sitReleaseFileHandle(sitFile).sf
    /\ ql' = QlReturn(ql, IF ql.zipErr = 0 THEN noErr ELSE zipQLFailed)
    /\ UNCHANGED <<sitData, sitEntry, sitLog, hqxData, hqx, hqxLog, hqxSrc,
                   mr>>

\* GeneratePreviewForURL up to the cancellation check after the open; open1,
\* open2: archive_read_open_filename succeeds at the first, second attempt
UrlOpen ==
    /\ ql.fn = "URL" /\ ql.pc = "start"
    /\ \E c1 \in BOOLEAN, open1 \in BOOLEAN, open2 \in BOOLEAN,
          c2 \in BOOLEAN :
          ql' = IF c1 THEN QlReturn(ql, noErr)
                ELSE IF ~open1 /\ ~ql.utiGZ THEN QlReturn(ql, zipQLFailed)
                ELSE IF ~open1 /\ ~open2 THEN QlReturn(ql, zipQLFailed)
                ELSE IF c2
                THEN QlReturn([ql EXCEPT !.isGZFile = ~open1], noErr)
                ELSE [ql EXCEPT !.isGZFile = ~open1, !.archiveOpen = TRUE,
                                !.pc = "loop"]
    /\ UNCHANGED <<sitData, sitFile, sitEntry, sitLog,
                   hqxData, hqx, hqxLog, hqxSrc, mr>>

\* the locals of GeneratePreviewForURL after the body of its loop has run on
\* the entry e: fileCompressedSize is set for an entry that is not a folder
\* (from the last four bytes of a gzip file, from archive_entry_size
\* otherwise) and added to totalSize for every entry
UrlRow(q, e) ==
    Only({[q EXCEPT !.fileCompressedSize = size,
                    !.totalSize = WAdd(@, size),
                    !.rows = Append(@, [folder |-> isFolder,
                                        size |-> IF q.isGZFile THEN q.gzSize
                                                 ELSE e.size]),
                    !.next = @ + 1,
                    !.pc = IF q.isGZFile THEN "finish" ELSE "loop"]
          : isFolder \in {IF q.isGZFile THEN FALSE ELSE e.dir},
            size \in {IF ~q.isGZFile /\ e.dir THEN q.fileCompressedSize
                      ELSE IF q.isGZFile THEN q.gzSize
                      ELSE e.size}})

\* GeneratePreviewForURL: one turn of the loop
UrlEntry ==
    /\ ql.fn = "URL" /\ ql.pc = "loop"
    /\ \E cancel \in BOOLEAN :
          ql' = IF ql.next > Len(ql.archive)
                THEN [ql EXCEPT !.pc = "finish"]
                ELSE IF ql.archive[ql.next].r = "ARCHIVE_FATAL"
                THEN [ql EXCEPT !.zipErr = zipQLFailed, !.pc = "finish"]
                ELSE IF cancel
                THEN [ql EXCEPT !.pc = "finish"]
                ELSE UrlRow(ql, ql.archive[ql.next])
    /\ UNCHANGED <<sitData, sitFile, sitEntry, sitLog,
                   hqxData, hqx, hqxLog, hqxSrc, mr>>

\* GeneratePreviewForURL: archive_read_close and archive_read_free, the
\* summary row and the return; archive_file_count reads the freed archive,
\* its value is any; callsOnFreed lists the archive_* calls made on the
\* handle after its archive_read_free
UrlFinish ==
    /\ ql.fn = "URL" /\ ql.pc = "finish"
    /\ \E count \in {0, ql.next - 1, 255} :
          ql' = QlReturn([ql EXCEPT !.archiveOpen = FALSE,
                                    !.archiveFreed = TRUE,
                                    !.callsOnFreed =
                                        Append(@, "archive_file_count"),
                                    !.fileCount = count],
                         IF ql.zipErr = 0 THEN noErr ELSE zipQLFailed)
    /\ UNCHANGED <<sitData, sitFile, sitEntry, sitLog,
                   hqxData, hqx, hqxLog, hqxSrc, mr>>

NextQL ==
    \/ HqxPreviewOpen
    \/ HqxPreviewHeader
    \/ HqxPreviewFinish
    \/ HqxMainOpen
    \/ HqxMainHeader
    \/ HqxMainExtract
    \/ SitPreviewOpen
    \/ SitPreviewEntry
    \/ SitPreviewFinish
    \/ UrlOpen
    \/ UrlEntry
    \/ UrlFinish

SpecQL == InitQL /\ [][NextQL]_vars

\* a handle is open: the stream of the BinHex handle, the descriptor of the
\* StuffIt handle, or the archive of libarchive
QlHeld ==
    \/ hqx.fd # -1 /\ hqx.fp = "open"
    \/ sitFile.fdOpen
    \/ ql.fn # "none" /\ ql.archiveOpen

\* the caller has returned
QlReturned == ql.fn # "none" /\ ql.pc = "returned"

\* C19: every handle successfully opened by hqxInitFileHandle,
\* sitInitFileHandle or archive_read_open_filename is released before the
\* operation that opened it returns, on every exit path: normal completion,
\* decode error, and cancellation by the host between steps.
C19_Released == QlReturned => ~QlHeld

\* the sizes of the rows that are not folders, added up
RECURSIVE QlFileSum(_)
QlFileSum(rows) ==
    IF rows = <<>> THEN WZero
    ELSE WAdd(QlFileSum(SubSeq(rows, 1, Len(rows) - 1)),
              IF rows[Len(rows)].folder THEN WZero
              ELSE rows[Len(rows)].size)

\* C20: in every preview listing loop (StuffIt and generic archive) the
\* running total of the uncompressed sizes is the sum of the uncompressed
\* sizes of exactly the entries processed so far that are not folders;
\* folder entries contribute nothing.
C20_RunningTotal ==
    ql.fn \in {"SIT", "URL"} => ql.totalSize = QlFileSum(ql.rows)

\* GeneratePreviewForSIT has returned from the statement after its loop
SitPreviewListed ==
    ql.fn = "SIT" /\ ql.pc = "returned" /\ ql.from = "finish"

\* C21: the end of the entries is not an error: when the loop of
\* GeneratePreviewForSIT stops because sitGetNextEntry returned gSitEOF the
\* function returns noErr, and after a successful open it returns
\* zipQLFailed only when sitGetNextEntry returned gSitErr.
C21_EndIsNotError ==
    SitPreviewListed =>
        /\ ql.zipErr = gSitEOF => ql.ret = noErr
        /\ ql.ret = zipQLFailed => ql.zipErr = gSitErr

(***************************************************************************)
(* SpecCRC: hqxGetByteWithOptions called byte by byte with either option   *)
(***************************************************************************)

\* the longest unpacked byte stream of SpecCRC
MaxCrcLen == 3

\* the most hqxGetByteWithOptions calls made on one stream
MaxCrcCalls == 5

\* the bytes of the unpacked streams: 0xFF (sets the top bit of the
\* accumulator), a letter, the run marker, a run count
CrcBytes == {255, 65, RUNCHAR, 3}

InitCRC ==
    /\ \E packed \in SeqsUpTo(CrcBytes, MaxCrcLen) :
          /\ hqxData = Armor(packed)
          /\ hqxSrc = [kind |-> "crc", packed |-> packed]
    /\ hqx = hqxInitFileHandle(-1)
    /\ hqxLog = <<>>
    /\ SitIdle
    /\ MrIdle
    /\ QlIdle

\* the caller has found the armor (hqxGetHeader, first step)
CrcFind ==
    /\ hqxLog = <<>>
    /\ \E r \in {hqxFindHeader(hqx, hqxData)} :
          /\ hqx' = r.h
          /\ hqxLog' = <<[op |-> "find", c |-> r.rc, options |-> OPT_NONE]>>
    /\ UNCHANGED <<hqxData, hqxSrc, sitData, sitFile, sitEntry, sitLog, mr, ql>>

\* one hqxGetByteWithOptions call, as hqxGetByte makes it (OPT_NONE) or as
\* hqxGet2BytesWithOptions makes it for a CRC field (OPT_EXCLUDE_FROM_CRC);
\* at most two calls are made at the end of input, MaxCrcCalls in all
CrcStep ==
    /\ hqxLog # <<>>
    /\ hqxLog[1].c = gHqxOkay
    /\ Len(hqxLog) <= MaxCrcCalls
    /\ ~(Len(hqxLog) >= 3 /\ hqxLog[Len(hqxLog)].c = EOF
                          /\ hqxLog[Len(hqxLog) - 1].c = EOF)
    /\ \E options \in {OPT_NONE, OPT_EXCLUDE_FROM_CRC} :
       \E r \in {hqxGetByteWithOptions(hqx, hqxData, options)} :
          /\ hqx' = r.h
          /\ hqxLog' = Append(hqxLog,
                              [op |-> "byte", c |-> r.c, options |-> options])
    /\ UNCHANGED <<hqxData, hqxSrc, sitData, sitFile, sitEntry, sitLog, mr, ql>>

NextCRC == CrcFind \/ CrcStep

SpecCRC == InitCRC /\ [][NextCRC]_vars

\* the values the claim has the accumulator fed with: the value of each
\* byte a call returned, 0 for a byte read with OPT_EXCLUDE_FROM_CRC
CrcFed ==
    LET calls == SelectSeq(hqxLog, LAMBDA r : r.op = "byte" /\ r.c # EOF)
    IN  [i \in 1..Len(calls) |->
            IF calls[i].options = OPT_EXCLUDE_FROM_CRC THEN 0 ELSE calls[i].c]

\* the reference bit-serial CRC: bit k of the byte, most significant first
CrcRefBit(crc, byte, k) ==
    LET carry == (crc \div 32768) % 2
        bit == (byte \div Pow2(7 - k)) % 2
        next == (2 * crc + bit) % 65536
    IN  IF carry = 1 THEN BitXor(next, 4129, 16) ELSE next

RECURSIVE CrcRefByte(_, _, _)
CrcRefByte(crc, byte, k) ==
    IF k > 7 THEN crc
    ELSE Only({CrcRefByte(c, byte, k + 1) : c \in {CrcRefBit(crc, byte, k)}})

RECURSIVE CrcRef(_, _)
CrcRef(crc, bytes) ==
    IF bytes = <<>> THEN crc
    ELSE Only({CrcRef(c, Tail(bytes)) : c \in {CrcRefByte(crc, Head(bytes), 0)}})

\* C22: the accumulator is the reference bit-serial CRC (carry = bit 15,
\* shift the next bit of the byte in, most significant first, XOR 0x1021 on
\* carry) of the fed values: every byte a call has returned, run-length
\* copies included, with its own value, and 0 for each byte read with
\* OPT_EXCLUDE_FROM_CRC.
C22_CRC ==
    (hqxSrc.kind = "crc" /\ hqx.fd >= 0) =>
        /\ hqx.crc = CrcRef(0, CrcFed)
        /\ hqx.got = Len(CrcFed)

\* C22 witness: a 0xFF and its two run-length copies have been read, the
\* last one with OPT_EXCLUDE_FROM_CRC; feeding it met a set top bit
C22_Witness ==
    /\ hqxSrc.kind = "crc"
    /\ hqxSrc.packed = <<255, RUNCHAR, 3>>
    /\ CrcFed = <<255, 255, 0>>
    /\ hqx.crc = CrcRef(0, <<255, 255, 0>>)
    /\ CrcRef(0, <<255, 255>>) >= 32768

(***************************************************************************)
(* SpecSix: the armor read with hqxGet6Bits, or with hqxGetByteRaw         *)
(***************************************************************************)

\* the most groups of four characters in an armor of SpecSix
MaxSixGroups == 1

\* the characters of the groups: '!' (value 0), 'P' (value 37), 'r'
\* (value 63)
SixChars == {33, 80, 114}

\* the armors: every character of the alphabet alone, whole groups, and
\* groups that the end of the armor cuts after two or three characters
SixInputs ==
    {<<gHqxValidChars[i]>> : i \in 1..Len(gHqxValidChars)}
        \cup UNION {[1..(4 * g) -> SixChars] : g \in 1..MaxSixGroups}
        \cup UNION {[1..n -> SixChars] : n \in 2..3}

InitSix ==
    /\ \E chars \in SixInputs, mode \in {"bits", "raw"} :
          /\ hqxData = <<10, 58>> \o chars \o <<58, 10>>
          /\ hqxSrc = [kind |-> "six", mode |-> mode, chars |-> chars]
    /\ hqx = hqxInitFileHandle(-1)
    /\ hqxLog = <<>>
    /\ SitIdle
    /\ MrIdle
    /\ QlIdle

\* the caller has found the armor (hqxGetHeader, first step)
SixFind ==
    /\ hqxLog = <<>>
    /\ \E r \in {hqxFindHeader(hqx, hqxData)} :
          /\ hqx' = r.h
          /\ hqxLog' = <<[op |-> "find", c |-> r.rc]>>
    /\ UNCHANGED <<hqxData, hqxSrc, sitData, sitFile, sitEntry, sitLog, mr, ql>>

\* one hqxGet6Bits call, none after the one that returned EOF
SixBits ==
    /\ hqxSrc.mode = "bits"
    /\ hqxLog # <<>>
    /\ hqxLog[1].c = gHqxOkay
    /\ ~(Len(hqxLog) >= 2 /\ hqxLog[Len(hqxLog)].c = EOF)
    /\ \E r \in {hqxGet6Bits(hqx, hqxData)} :
          /\ hqx' = r.h
          /\ hqxLog' = Append(hqxLog, [op |-> "bits", c |-> r.c])
    /\ UNCHANGED <<hqxData, hqxSrc, sitData, sitFile, sitEntry, sitLog, mr, ql>>

\* one hqxGetByteRaw call, none after the one that returned EOF
SixRaw ==
    /\ hqxSrc.mode = "raw"
    /\ hqxLog # <<>>
    /\ hqxLog[1].c = gHqxOkay
    /\ ~(Len(hqxLog) >= 2 /\ hqxLog[Len(hqxLog)].c = EOF)
    /\ \E r \in {hqxGetByteRaw(hqx, hqxData)} :
          /\ hqx' = r.h
          /\ hqxLog' = Append(hqxLog, [op |-> "raw", c |-> r.c])
    /\ UNCHANGED <<hqxData, hqxSrc, sitData, sitFile, sitEntry, sitLog, mr, ql>>

NextSix == SixFind \/ SixBits \/ SixRaw

SpecSix == InitSix /\ [][NextSix]_vars

\* the index of the character c in gHqxValidChars, counted from 0
SixIndex(c) ==
    (CHOOSE i \in 1..Len(gHqxValidChars) : gHqxValidChars[i] = c) - 1

\* the value of the j-th character of the armor (j from 1)
SixValue(j) == SixIndex(hqxSrc.chars[j])

\* byte k (0, 1, 2) of the group of the values a, b, c, d
SixByte(a, b, c, d, k) ==
    CASE k = 0 -> (a * 4 + (b \div 16)) % 256
      [] k = 1 -> (b * 16 + (c \div 4)) % 256
      [] k = 2 -> (c * 64 + d) % 256

\* C23: hqxGet6Bits gives each character of the alphabet its index in
\* gHqxValidChars, a value in 0..63 that no other character has, and the
\* successive hqxGetByteRaw calls return, for each complete group of four
\* values a, b, c, d, the bytes ((a<<2)|(b>>4)) mod 256,
\* ((b<<4)|(c>>2)) mod 256, ((c<<6)|d) mod 256 in that order.
C23_SixToEight ==
    hqxSrc.kind = "six" =>
        /\ \A j \in 2..Len(hqxLog) :
              (hqxLog[j].op = "bits" /\ j - 1 <= Len(hqxSrc.chars)) =>
                  /\ hqxLog[j].c = SixValue(j - 1)
                  /\ hqxLog[j].c \in 0..63
                  /\ \A k \in 1..Len(gHqxValidChars) :
                        gHqxValidChars[k] # hqxSrc.chars[j - 1] =>
                            hqxTableValue(hqx, gHqxValidChars[k]) # hqxLog[j].c
        /\ \A j \in 2..Len(hqxLog) :
              LET g == (j - 2) \div 3
              IN  (hqxLog[j].op = "raw" /\ 4 * (g + 1) <= Len(hqxSrc.chars)) =>
                      hqxLog[j].c = SixByte(SixValue(4 * g + 1),
                                            SixValue(4 * g + 2),
                                            SixValue(4 * g + 3),
                                            SixValue(4 * g + 4), (j - 2) % 3)

\* C23 witness: the group P r P ! (37, 63, 37, 0) has been returned as the
\* bytes 0x97, 0xF9, 0x40 over three calls
C23_Witness ==
    /\ hqxSrc.kind = "six"
    /\ hqxSrc.chars = <<80, 114, 80, 33>>
    /\ hqxLog = <<[op |-> "find", c |-> gHqxOkay], [op |-> "raw", c |-> 151],
                  [op |-> "raw", c |-> 249], [op |-> "raw", c |-> 64]>>

\* the bytes of ':', '/' and the backslash
DirSeparators == {58, 47, 92}

\* C24: after hqxGetHeader succeeds asciiName holds no ':', '/' or
\* backslash and no non-printable character, each such character of the raw
\* name having been replaced by '_'.
C24_CleanName ==
    (HdrCalled /\ hqxLog[1].c = gHqxOkay) =>
        \A i \in 1..HQXFNAMEMAX :
            /\ hqx.hqxHeader.asciiName[i] \notin DirSeparators
            /\ hqx.hqxHeader.asciiName[i] \in {0} \cup (32..126)
            /\ (\/ hqx.hqxHeader.name[i] \in DirSeparators
                \/ hqx.hqxHeader.name[i] \in (1..31) \cup (127..255))
               => hqx.hqxHeader.asciiName[i] = 95

\* C25: in GeneratePreviewForURL no archive_* call is made on the archive
\* handle after archive_read_free has been called on it.
C25_NoUseAfterFree ==
    ql.fn = "URL" => (ql.archiveFreed => ql.callsOnFreed = <<>>)

\* C26: the descriptor sitInitFileHandle or hqxInitFileHandle has opened is
\* closed exactly once, by the failure path of the init function or by the
\* release function (closing the stream closes its descriptor), and the
\* release function returns 0 when called once on a handle a successful
\* init has produced.
C26_ClosedOnce ==
    /\ (sitLog # <<>> /\ sitLog[1].op = "init") =>
          /\ (sitLog[1].ret = gSitErr /\ ~sitLog[1].ioErr) => sitFile.closes = 1
          /\ (Len(sitLog) >= 2 /\ sitLog[Len(sitLog)].op = "release") =>
                /\ sitFile.closes = 1
                /\ sitLog[Len(sitLog)].ret = 0
    /\ \A i \in 1..Len(hqxLog) :
          hqxLog[i].op = "release" => hqxLog[i].c = 0

\* hqxGet6Bits reads gHqxValidCharsLookupTable for the char nextChar: the
\* char is no line break, ':' or EOF and nextChar - ' ' is below 83
hqxLooksUp(nextChar) ==
    /\ nextChar \notin {10, 13, 58, EOF}
    /\ nextChar - 32 < HqxTableLen

\* the index of that read
hqxLookupIndex(nextChar) == nextChar - 32

\* C27: whatever the input byte, hqxGet6Bits reads
\* gHqxValidCharsLookupTable only at an index in 0..82.
C27_LookupInTable ==
    hqxSrc.kind = "find" =>
        \A k \in 1..Len(hqxLog) :
            LET p == SkipBreaks(hqxData, hqxLog[k].at)
            IN  (/\ hqxLog[k].op = "get6"
                 /\ p < Len(hqxData)
                 /\ hqxLooksUp(SChar(hqxData[p + 1])))
                => hqxLookupIndex(SChar(hqxData[p + 1])) \in 0..(HqxTableLen - 1)

\* the number of bytes that the values of n characters determine in full
SixWhole(n) == 3 * (n \div 4) + (IF n % 4 >= 2 THEN (n % 4) - 1 ELSE 0)

\* C28: when the armor ends inside a group of four characters hqxGetByteRaw
\* returns the bytes that the values read determine in full (none after 0
\* or 1 values, one after 2, two after 3) and then EOF, never a byte
\* computed from the end-of-data marker.
C28_PartialGroup ==
    (hqxSrc.kind = "six" /\ hqxSrc.mode = "raw") =>
        \A j \in 2..Len(hqxLog) :
            IF j - 1 <= SixWhole(Len(hqxSrc.chars))
            THEN hqxLog[j].c \in 0..255
            ELSE hqxLog[j].c = EOF

(***************************************************************************)
(* SpecBuf: hqxExtractFork on data forks shorter than, as long as and      *)
(* longer than the output buffer, with the bytes written to the file       *)
(***************************************************************************)

\* the longest of the short data forks
MaxBufSmall == 8

\* the lengths of the data forks: short ones, gMaxBuf and gMaxBuf + 1
BufLens == (1..MaxBufSmall) \cup {gMaxBuf, gMaxBuf + 1}

BufFields ==
    [name : {<<97>>}, type : {<<84, 69, 88, 84>>},
     creator : {<<116, 116, 120, 116>>}, flags : {0},
     dataLen : {WInt(n) : n \in BufLens}, rsrcLen : {<<0, 0>>}]

\* the bytes of a data fork of n bytes: those of ForkData for a short fork,
\* zero bytes for a long one
BufData(n) == IF n <= MaxBufSmall THEN ForkData(n) ELSE Zeros(n)

\* the CRC field an encoder writes after BufData(n): the CRC of zero bytes
\* is 0; bad: the field differs in its last bit
BufCRC(n, bad) ==
    IF n <= MaxBufSmall THEN ForkCRC(ForkData(n), bad)
    ELSE IF bad THEN 1 ELSE 0

\* the files: header, data fork and its CRC field, an empty resource fork
\* and its CRC field
InitBuf ==
    /\ \E f \in BufFields : \E bad \in {"none", "data"} :
       \E crc \in {BufCRC(WVal(f.dataLen), bad = "data")} :
       \E file \in {HdrBytes(f) \o BufData(WVal(f.dataLen)) \o BE2(crc)
                        \o BE2(ForkCRC(<<>>, FALSE))} :
       \E packed \in {EncRL(file)} :
          /\ hqxSrc = [kind |-> "buf", f |-> f, bad |-> bad]
          /\ hqxData = Armor(packed)
    /\ hqx = hqxInitFileHandle(-1)
    /\ hqxLog = <<>>
    /\ SitIdle
    /\ MrIdle
    /\ QlIdle

BufGetHeader ==
    /\ hqxLog = <<>>
    /\ \E r \in {hqxGetHeader(hqx, hqxData)} :
       /\ hqx' = r.h
       /\ hqxLog' = <<[op |-> "header", c |-> r.rc, why |-> "", env |-> "",
                       write |-> TRUE, wrote |-> <<>>,
                       got |-> r.h.got - hqx.got]>>
    /\ UNCHANGED <<hqxData, hqxSrc, sitData, sitFile, sitEntry, sitLog, mr, ql>>

\* hqxExtractFork(hqxFile, NULL), once: write tells whether write(2)
\* succeeds, wrote is the content of the output file, got the number of
\* bytes the call has decoded
BufExtract ==
    /\ Len(hqxLog) = 1
    /\ hqxLog[1].c = gHqxOkay
    /\ hqx.fp = "open"
    /\ \E env \in ForkEnvs :
          \E r \in {hqxExtractFork(hqx, hqxData, FALSE, env)} :
          /\ hqx' = r.h
          /\ hqxLog' = Append(hqxLog,
                 [op |-> "data", c |-> r.rc, why |-> r.why, env |-> env.open,
                  write |-> env.write, wrote |-> r.wrote,
                  got |-> r.h.got - hqx.got])
    /\ UNCHANGED <<hqxData, hqxSrc, sitData, sitFile, sitEntry, sitLog, mr, ql>>

\* hqxReleaseFileHandle(hqxFile)
BufRelease ==
    /\ hqxLog # <<>>
    /\ hqx.fp = "open"
    /\ \E r \in {hqxReleaseFileHandle(hqx)} :
       /\ hqx' = r.h
       /\ hqxLog' = Append(hqxLog,
              [op |-> "release", c |-> r.ret, why |-> "", env |-> "",
               write |-> TRUE, wrote |-> <<>>, got |-> 0])
    /\ UNCHANGED <<hqxData, hqxSrc, sitData, sitFile, sitEntry, sitLog, mr, ql>>

NextBuf == BufGetHeader \/ BufExtract \/ BufRelease

SpecBuf == InitBuf /\ [][NextBuf]_vars

\* C29: when hqxExtractFork has decoded the forkLen > 0 bytes of a fork and
\* its CRC field without read or write error, the output file holds those
\* forkLen bytes in order, none missing or twice, also when forkLen is a
\* multiple of gMaxBuf.
C29_ForkWritten ==
    hqxSrc.kind = "buf" =>
        \A k \in 1..Len(hqxLog) :
            (/\ hqxLog[k].op = "data"
             /\ hqxLog[k].why \in {"ok", "crc"}
             /\ hqxLog[k].write
             /\ hqxLog[k].got = WVal(hqxSrc.f.dataLen) + 2)
            => hqxLog[k].wrote = BufData(WVal(hqxSrc.f.dataLen))

\* the number of bytes of the name field of an entry header: from
\* SitEHdrOffsetName up to SitEHdrOffsetType
SitNameFieldLen == SitEHdrOffsetType - SitEHdrOffsetName

\* C30: the byte ranges of the entry header that sitGetNextEntry decodes do
\* not overlap; the name bytes it copies lie in the name field, between the
\* length byte at offset 2 and the type field at offset 66, and whatever the
\* declared name length the decoded name holds no byte of the type field.
C30_NameField ==
    SitEntryRead =>
        /\ \A i \in 1..SitNameFieldLen :
              sitEntry.name[i] # 0 => sitEntry.name[i] = SitNameFieldByte(i)
        /\ \A i \in (SitNameFieldLen + 1)..(SITFNAMEMAX + 1) :
              sitEntry.name[i] = 0

====
